---------------------------- MODULE Spec2Model ----------------------------
(***************************************************************************)
(* Model of the @smooai/fetch request pipeline (fetch.ts).                 *)
(*                                                                         *)
(* A built client runs every call through a container circuit              *)
(*   rate-limit Retry -> Ratelimit -> doFetch                              *)
(* and doFetch runs the raw call through a per-call circuit                *)
(*   Retry -> Timeout -> doGlobalFetch -> raw fetch.                       *)
(* JavaScript is single threaded: a call runs without interruption from    *)
(* one suspension point (an awaited raw call, a retry delay) to the next,  *)
(* so every action below is one such run-to-suspension step.               *)
(***************************************************************************)
EXTENDS Integers, Naturals, Sequences, FiniteSets, TLC

VARIABLES
    cfg,          \* the options of the client and of its calls, fixed at build time
    now,          \* the wall clock, in milliseconds
    pc,           \* per caller: where its call is suspended
    tries,        \* per caller: raw calls issued for the current logical request
    left,         \* per caller: the countdown `attempts` argument of Retry._promiseRetry
    lastErr,      \* per caller: the error the per-call Retry module last caught
    pending,      \* per caller: attempts whose doGlobalFetch has not returned or thrown yet
    reading,      \* per caller: those of them whose raw call settled: the response, the await
    hist,         \* per caller: outcome of every attempt, in order
    lateSeen,     \* per caller: attempts whose doGlobalFetch ended after their race was over
    result,       \* per caller: what the call returned or threw
    rlLeft,       \* per caller: the countdown of the rate-limit Retry module
    wake,         \* per caller: the time its rate-limit wait ends
    deniedAt,     \* per caller: the time admission was last denied to it, or -1
    requestsTime, \* Ratelimit.requestsTime: admission times kept by the limiter
    admitLog,     \* every admission time of the client, in order
    env,          \* per caller: the response with body its latest attempt built
    brk,          \* the state of the client's SlidingCountBreaker
    via,          \* per caller: the breaker branch its call in flight went through
    startedAt,    \* per caller: the time the breaker handed its call to doFetch
    hook,         \* per caller: what the lifecycle hooks of its call did and saw
    peer,         \* the container circuit of a second, separately built client, and its calls
    calc          \* the operands and the result of a pure computation

vars == <<cfg, now, pc, tries, left, lastErr, pending, reading, hist, lateSeen, result,
          rlLeft, wake, deniedAt, requestsTime, admitLog, env, brk, via, startedAt,
          hook, peer, calc>>

\* the state of the calls and of the container circuit of the client
callVars == <<cfg, now, pc, tries, left, lastErr, pending, reading, hist, lateSeen, result,
              rlLeft, wake, deniedAt, requestsTime, admitLog, env, brk, via, startedAt,
              hook>>

---------------------------------------------------------------------------
(* Bounds *)

MaxAttempts == 2       \* largest retry.attempts value explored
NumCallers == 2        \* concurrent callers of one built client
MaxTicks == 4          \* the clock stops after this many ticks
MaxLimit == 2          \* largest limitForPeriod explored
MaxPermitted == 2      \* largest permittedNumberOfCallsInHalfOpenState explored
MaxMinCalls == 2       \* largest minimumNumberOfCalls explored
WindowSize == 2        \* slidingWindowSize of the breaker
MaxBuilds == 2         \* build() calls on one FetchBuilder
MaxRequests == 2       \* requests through the clients of one FetchBuilder
MaxPeerCalls == 2      \* calls in flight at once through the second client
MaxWiths == 2          \* with... calls on one FetchBuilder

(* Program constants *)

TickMs == 50
LimitPeriodMs == 100
OpenStateDelayMs == 100
HalfOpenStateMaxDelayMs == 50
SlowCallMs == 50
DEFAULT_ATTEMPTS == 2
DEFAULT_RL_ATTEMPTS == 1
RL_BUFFER_MS == 50
DEFAULT_RL_INTERVAL_MS == 500

Callers == 1..NumCallers

---------------------------------------------------------------------------
(* JavaScript values returned by a RetryCallback: boolean | number *)

JSBool(b) == [t |-> "bool", b |-> b, n |-> 0]
JSNum(n) == [t |-> "num", b |-> FALSE, n |-> n]
JSNaN == [t |-> "nan", b |-> FALSE, n |-> 0]

\* JavaScript truthiness, as used by `if (onRejection(error, 1))`
Truthy(v) ==
    CASE v.t = "bool" -> v.b
      [] v.t = "num" -> v.n # 0
      [] OTHER -> FALSE

\* parseInt on the header values the model draws
ParseInt(s) ==
    CASE s = "0" -> JSNum(0)
      [] s = "2" -> JSNum(2)
      [] OTHER -> JSNaN

\* number * 1000
TimesThousand(v) == IF v.t = "num" THEN JSNum(v.n * 1000) ELSE JSNaN

---------------------------------------------------------------------------
(* Raw responses and errors *)

\* a raw response: status, Retry-After header, redirected flag, Content-Type
\* header and body text
RespWithBody(status, ra, redirected, ct, body) ==
    [kind |-> "resp", status |-> status, ok |-> (status >= 200 /\ status <= 299),
     ra |-> ra, redirected |-> redirected, ct |-> ct, body |-> body]

\* a raw response with a JSON content type and the body {}
Resp(status, ra, redirected) ==
    RespWithBody(status, ra, redirected, "application/json", "{}")

TimedOut ==
    [kind |-> "timeout", status |-> 0, ok |-> FALSE, ra |-> "absent", redirected |-> FALSE,
     ct |-> "absent", body |-> ""]

Responses ==
    { Resp(200, "absent", FALSE), Resp(404, "absent", FALSE), Resp(404, "2", FALSE),
      Resp(404, "absent", TRUE),
      Resp(429, "absent", FALSE), Resp(429, "0", FALSE), Resp(429, "2", FALSE),
      Resp(429, "abc", FALSE),
      Resp(500, "absent", FALSE), Resp(500, "0", FALSE),
      Resp(503, "absent", FALSE), Resp(503, "2", FALSE) }

\* a success whose body doGlobalFetch does not read, and a failure
PlainOk == RespWithBody(200, "absent", FALSE, "text/plain", "ok")

RLResponses == { PlainOk, Resp(500, "absent", FALSE) }

NoErr == [kind |-> "none", status |-> 0, ra |-> "absent", att |-> 0, rem |-> 0]

HTTPResponseError(resp, att) ==
    [kind |-> "HTTPResponseError", status |-> resp.status, ra |-> resp.ra, att |-> att, rem |-> 0]

RetryError(err) == [err EXCEPT !.kind = "RetryError"]

TimeoutError(att) ==
    [kind |-> "TimeoutError", status |-> 0, ra |-> "absent", att |-> att, rem |-> 0]

RatelimitError(remaining) ==
    [kind |-> "RatelimitError", status |-> 0, ra |-> "absent", att |-> 0, rem |-> remaining]

\* the HumanReadableSchemaError thrown by handleSchemaValidation
SchemaError(att) ==
    [kind |-> "HumanReadableSchemaError", status |-> 0, ra |-> "absent", att |-> att, rem |-> 0]

BreakerError ==
    [kind |-> "BreakerError", status |-> 0, ra |-> "absent", att |-> 0, rem |-> 0]

BreakerMaxAllowedRequestError ==
    [kind |-> "BreakerMaxAllowedRequestError", status |-> 0, ra |-> "absent", att |-> 0, rem |-> 0]

Envelope(resp, att) ==
    [kind |-> "ok", status |-> resp.status, ra |-> resp.ra, att |-> att, rem |-> 0]

isRetryable_AnyError(status) == status >= 400

isRetryable(status) == status = 429 \/ status >= 500

---------------------------------------------------------------------------
(* Retry predicates *)

DefaultOnRejection_RetrySchemaError(err, attempt) ==
    CASE err.kind \in {"HTTPResponseError", "RetryError"} ->
            IF isRetryable(err.status) /\ err.ra # "absent"
            THEN TimesThousand(ParseInt(err.ra))
            ELSE JSBool(isRetryable(err.status))
      [] err.kind = "RatelimitError" -> JSNum(err.rem)
      [] OTHER -> JSBool(TRUE)

\* DEFAULT_RETRY_OPTIONS.onRejection
DefaultOnRejection(err, attempt) ==
    CASE err.kind \in {"HTTPResponseError", "RetryError"} ->
            IF isRetryable(err.status) /\ err.ra # "absent"
            THEN TimesThousand(ParseInt(err.ra))
            ELSE JSBool(isRetryable(err.status))
      [] err.kind = "RatelimitError" -> JSNum(err.rem)
      [] err.kind = "TimeoutError" -> JSBool(TRUE)
      [] err.kind = "HumanReadableSchemaError" -> JSBool(FALSE)
      [] OTHER -> JSBool(TRUE)

DefaultRateLimitOnRejection_NoBuffer(err, attempt) ==
    IF err.kind = "RatelimitError" THEN JSNum(err.rem) ELSE JSBool(FALSE)

DefaultRateLimitOnRejection_AnyError(err, attempt) == JSNum(err.rem + RL_BUFFER_MS)

\* DEFAULT_RATE_LIMIT_RETRY_OPTIONS.onRejection
DefaultRateLimitOnRejection(err, attempt) ==
    IF err.kind = "RatelimitError" THEN JSNum(err.rem + RL_BUFFER_MS) ELSE JSBool(FALSE)

\* options.retry.onRejection: the default, or a caller-supplied RetryCallback
OnRejection(kind, err, attempt) ==
    CASE kind = "default" -> DefaultOnRejection(err, attempt)
      [] kind = "attemptEq1" -> JSBool(attempt = 1)
      [] OTHER -> JSBool(TRUE)

---------------------------------------------------------------------------
(* mollitia Retry module, as configured by prepareCircuitModules *)

RetryBudget_TotalTries(attempts) == attempts

\* Retry.execute starts _promiseRetry with attempts + 1 tries
RetryBudget(attempts) == attempts + 1

\* `if (shouldRetry === false)`: only a strict false stops the retries
ShouldRetry(v) == ~(v.t = "bool" /\ v.b = FALSE)

KeepError_First(old, new) == IF old.kind = "none" THEN new ELSE old

\* the error a Retry module rejects with is the one of its latest try
KeepError(old, new) == new

RetryGivesUp_OneMore(countdown, verdict) == countdown = 0 \/ ~ShouldRetry(verdict)

\* Retry gives up on err when the countdown is spent or the predicate says false
RetryGivesUp(countdown, verdict) == countdown - 1 = 0 \/ ~ShouldRetry(verdict)

RaceOpen_LateWins(c, i) == i \in pending[c]

(* mollitia Timeout module: Promise.race of the raw call and the deadline.  *)
(* The race of attempt i of caller c is still open while that attempt is    *)
(* the one in flight.                                                       *)
RaceOpen(c, i) == pc[c] = "inflight" /\ i = tries[c]

(* mollitia Ratelimit module, as configured by prepareFetchContainerModules *)

RatelimitAdmits_OffByOne(times, t, limit, period) ==
    Len(times) <= limit \/ t - Head(times) > period

RatelimitAdmits(times, t, limit, period) ==
    Len(times) < limit \/ t - Head(times) > period

RatelimitPush_Reset(times, t, limit) ==
    IF Len(times) < limit THEN Append(times, t) ELSE <<t>>

RatelimitPush(times, t, limit) ==
    IF Len(times) < limit THEN Append(times, t) ELSE Append(Tail(times), t)

---------------------------------------------------------------------------
(* doGlobalFetch and doFetch *)

Succeeds_OkOnly(resp) == resp.ok

\* doGlobalFetch returns the response when it is ok or redirected, else throws
Succeeds(resp) == resp.ok \/ resp.redirected

ClassifyFinal_NoTypeCheck(kind, err) ==
    IF Truthy(OnRejection(kind, err, 1)) THEN RetryError(err) ELSE err

\* the catch block of doFetch: what is thrown to the caller for error err
ClassifyFinal(kind, err) ==
    IF err.kind = "TimeoutError" THEN err
    ELSE IF err.kind = "HTTPResponseError" /\ Truthy(OnRejection(kind, err, 1))
         THEN RetryError(err)
         ELSE err

---------------------------------------------------------------------------
(* doGlobalFetch: the response with body built from a raw response *)

\* headers.has('Content-Type') && headers.get('Content-Type').includes('application/json')
IncludesJson(ct) == ct \in {"application/json", "application/json; charset=utf-8"}

\* JSON.parse on the body texts the model draws: the value, or a SyntaxError
JSONParse(text) ==
    CASE text = "{}" -> [ok |-> TRUE, value |-> "object()"]
      [] text = "{\"id\":\"1\"}" -> [ok |-> TRUE, value |-> "object(id:string)"]
      [] text = "{\"id\":1}" -> [ok |-> TRUE, value |-> "object(id:number)"]
      [] OTHER -> [ok |-> FALSE, value |-> "absent"]

\* handleSchemaValidation against the schema z.object({ id: z.string() })
Validates(schema, value) == schema = "idString" /\ value = "object(id:string)"

NoEnv == [built |-> FALSE, isJson |-> FALSE, data |-> "absent", dataString |-> ""]

Materialize_SwallowSchemaError(resp, schema) ==
    IF IncludesJson(resp.ct)
    THEN LET parsed == JSONParse(resp.body)
         IN IF ~parsed.ok
            THEN [threw |-> FALSE, built |-> TRUE, isJson |-> FALSE, data |-> "absent",
                  dataString |-> resp.body]
            ELSE IF resp.ok /\ schema # "none" /\ ~Validates(schema, parsed.value)
            THEN [threw |-> FALSE, built |-> TRUE, isJson |-> FALSE, data |-> "absent",
                  dataString |-> resp.body]
            ELSE [threw |-> FALSE, built |-> TRUE, isJson |-> TRUE, data |-> parsed.value,
                  dataString |-> resp.body]
    ELSE [threw |-> FALSE, built |-> TRUE, isJson |-> FALSE, data |-> "absent",
          dataString |-> IF resp.ok \/ resp.redirected THEN "" ELSE resp.body]

Materialize_TrustContentType(resp, schema) ==
    IF IncludesJson(resp.ct)
    THEN LET parsed == JSONParse(resp.body)
         IN IF ~parsed.ok
            THEN [threw |-> FALSE, built |-> TRUE, isJson |-> TRUE, data |-> "absent",
                  dataString |-> resp.body]
            ELSE IF resp.ok /\ schema # "none" /\ ~Validates(schema, parsed.value)
            THEN [threw |-> TRUE, built |-> FALSE, isJson |-> FALSE, data |-> "absent",
                  dataString |-> ""]
            ELSE [threw |-> FALSE, built |-> TRUE, isJson |-> TRUE, data |-> parsed.value,
                  dataString |-> resp.body]
    ELSE [threw |-> FALSE, built |-> TRUE, isJson |-> FALSE, data |-> "absent",
          dataString |-> IF resp.ok \/ resp.redirected THEN "" ELSE resp.body]

\* the body of doGlobalFetch between the raw call and its return or throw:
\* `threw` says it threw a HumanReadableSchemaError, otherwise the fields are
\* those of the responseWithBody it built
Materialize(resp, schema) ==
    IF IncludesJson(resp.ct)
    THEN LET parsed == JSONParse(resp.body)
         IN IF ~parsed.ok
            THEN [threw |-> FALSE, built |-> TRUE, isJson |-> FALSE, data |-> "absent",
                  dataString |-> resp.body]
            ELSE IF resp.ok /\ schema # "none" /\ ~Validates(schema, parsed.value)
            THEN [threw |-> TRUE, built |-> FALSE, isJson |-> FALSE, data |-> "absent",
                  dataString |-> ""]
            ELSE [threw |-> FALSE, built |-> TRUE, isJson |-> TRUE, data |-> parsed.value,
                  dataString |-> resp.body]
    ELSE [threw |-> FALSE, built |-> TRUE, isJson |-> FALSE, data |-> "absent",
          dataString |-> IF resp.ok \/ resp.redirected THEN "" ELSE resp.body]

ReadBeforeThrow_NoReadFlag(read) == <<"text">>

\* `if (!read) responseWithBody.dataString = await responseClone.text()`: the
\* calls of responseClone.text() doGlobalFetch makes before it throws an
\* HTTPResponseError, `read` set by a read in the JSON branch
ReadBeforeThrow(read) == IF ~read THEN <<"text">> ELSE <<>>

\* doGlobalFetch awaits responseClone.text(): in the JSON branch, or before it
\* throws for a response whose body it has not read
AwaitsText(resp) == IncludesJson(resp.ct) \/ ~Succeeds(resp)

\* doGlobalFetch awaits handleSchemaValidation: the body parsed, the response
\* is ok and there is a schema
AwaitsValidation(resp, schema) ==
    IncludesJson(resp.ct) /\ JSONParse(resp.body).ok /\ resp.ok /\ schema # "none"

\* the fields of the responseWithBody
EnvOf(m) == [built |-> m.built, isJson |-> m.isJson, data |-> m.data, dataString |-> m.dataString]

---------------------------------------------------------------------------
(* mollitia SlidingCountBreaker, as configured by prepareFetchContainerModules *)

\* openDue is when the timer armed by open() fires, halfDue when the timer of
\* halfOpenStateMaxDelay does, 0 when that timer is not armed
BrkClosed ==
    [state |-> "closed", closed |-> <<>>, half |-> <<>>, nbHalf |-> 0, openDue |-> 0,
     halfDue |-> 0]

\* reinitializeCounters
Reinitialize(b) == [b EXCEPT !.closed = <<>>, !.half = <<>>, !.nbHalf = 0]

\* open(): the breaker opens, drops the timer of halfOpenStateMaxDelay and
\* arms the timer that half-opens it
BreakerOpen(b, t) ==
    IF b.state = "opened" THEN b
    ELSE [Reinitialize(b) EXCEPT !.state = "opened", !.openDue = t + OpenStateDelayMs,
                                 !.halfDue = 0]

\* halfOpen() at time t: with a halfOpenStateMaxDelay above 0 the timer that
\* sends the breaker back to Open is armed
BreakerHalfOpen(b, t, c) ==
    IF b.state = "half-opened" THEN b
    ELSE [Reinitialize(b) EXCEPT !.state = "half-opened", !.openDue = 0,
                                 !.halfDue = IF c.halfMax > 0 THEN t + c.halfMax ELSE 0]

\* close(): the timer of halfOpenStateMaxDelay is dropped
BreakerClose(b) ==
    IF b.state = "closed" THEN b
    ELSE [Reinitialize(b) EXCEPT !.state = "closed", !.openDue = 0, !.halfDue = 0]

CountOf(calls, o) == Cardinality({ i \in 1..Len(calls) : calls[i] = o })

LastN(calls, n) ==
    IF Len(calls) <= n THEN calls ELSE SubSeq(calls, Len(calls) - n + 1, Len(calls))

\* executePromise: how the breaker records the outcome of the call it wrapped
BreakerOutcome(failed, duration) ==
    IF failed THEN "failure" ELSE IF duration > SlowCallMs THEN "slow" ELSE "success"

\* checkResult: a rate reaches its threshold, a threshold of 100 switching its
\* criterion off
RatesTrip(failThr, slowThr, calls) ==
    \/ slowThr < 100 /\ CountOf(calls, "slow") * 100 >= slowThr * Len(calls)
    \/ failThr < 100 /\ CountOf(calls, "failure") * 100 >= failThr * Len(calls)

\* executeInClosed after the wrapped call settled with outcome o at time t
AfterClosed(b, o, t, c) ==
    LET pushed == Append(b.closed, o)
    IN IF Len(pushed) >= c.minCalls
       THEN LET window == LastN(pushed, WindowSize)
                b1 == [b EXCEPT !.closed = window]
            IN IF RatesTrip(c.failThr, c.slowThr, window) THEN BreakerOpen(b1, t) ELSE b1
       ELSE [b EXCEPT !.closed = pushed]

AfterHalfOpened_FailFast(b, o, t, c) ==
    LET b1 == [b EXCEPT !.half = Append(b.half, o)]
    IN IF o = "failure" THEN BreakerOpen(b1, t)
       ELSE IF Len(b1.half) = c.permitted THEN BreakerClose(b1)
       ELSE b1

\* executeInHalfOpened after the wrapped probe settled with outcome o at time t
AfterHalfOpened(b, o, t, c) ==
    LET b1 == [b EXCEPT !.half = Append(b.half, o)]
    IN IF Len(b1.half) = c.permitted
       THEN IF RatesTrip(c.failThr, c.slowThr, b1.half)
            THEN BreakerOpen(b1, t)
            ELSE BreakerClose(b1)
       ELSE b1

HalfOpenAdmits_OneMore(b, c) == b.nbHalf <= c.permitted

\* executeInHalfOpened lets a call through while probes are left
HalfOpenAdmits(b, c) == b.nbHalf < c.permitted

BreakerGate_OpenedAsClosed(b, c) ==
    IF b.state = "half-opened"
    THEN IF HalfOpenAdmits(b, c) THEN "half" ELSE "BreakerMaxAllowedRequestError"
    ELSE "closed"

\* the switch of _promiseBreaker: the branch a call takes, or the error it is
\* rejected with
BreakerGate(b, c) ==
    IF b.state = "opened" THEN "BreakerError"
    ELSE IF b.state = "half-opened"
    THEN IF HalfOpenAdmits(b, c) THEN "half" ELSE "BreakerMaxAllowedRequestError"
    ELSE "closed"

---------------------------------------------------------------------------
(* Lifecycle hooks (doFetch) *)

\* a call none of whose hooks has run: the request is the caller's
NoHooks ==
    [pre |-> 0, preAt |-> 0, succ |-> 0, post |-> 0, saw |-> "none",
     req |-> "original", sent |-> <<>>]

\* doFetch before circuit.execute, n raw calls issued so far: the hook, when
\* there is one, runs; it returns nothing, or a [url, init] pair that replaces
\* url and init and whose url is valid or not, or it throws
AfterPreRequest(kind, h, n) ==
    IF kind = "none"
    THEN h
    ELSE [h EXCEPT !.pre = h.pre + 1, !.preAt = n,
                   !.req = CASE kind = "rewrite" -> "rewritten"
                             [] kind = "badUrl" -> "invalid"
                             [] OTHER -> h.req]

\* doFetch throws before its try block: the preRequest hook threw, or
\* new URL() did for the url the hook returned
ThrowsBeforeTry(kind) == kind \in {"throw", "badUrl"}

Issue_CallerRequest(h) == [h EXCEPT !.sent = Append(h.sent, "original")]

\* a raw call is issued with the url and init doFetch executes the circuit with
Issue(h) == [h EXCEPT !.sent = Append(h.sent, h.req)]

\* what a postResponseSuccess hook returns: nothing, or a response of its own
\* in place of res
PostResponseSuccess(kind, res) ==
    CASE kind = "replace" -> [res EXCEPT !.status = 299]
      [] OTHER -> NoErr

\* the error the postResponseError hook of the tests returns for err: an error
\* of its own when err instanceof HTTPResponseError, which a RetryError is as
\* well, else the error it was given
HookError(err) ==
    IF err.kind \in {"HTTPResponseError", "RetryError"}
    THEN [err EXCEPT !.kind = "HookError"]
    ELSE err

\* what a postResponseError hook returns: nothing, or an error of its own
PostResponseError(kind, err) ==
    CASE kind = "replace" -> HookError(err)
      [] OTHER -> NoErr

AfterErrorHook_OnlyHttp(kind, h, err) ==
    IF kind = "none" \/ err.kind # "HTTPResponseError"
    THEN h
    ELSE [h EXCEPT !.post = h.post + 1, !.saw = err.kind]

\* the catch block of doFetch: the hook, when there is one, is given the error
\* caught from the circuit
AfterErrorHook(kind, h, err) ==
    IF kind = "none"
    THEN h
    ELSE [h EXCEPT !.post = h.post + 1, !.saw = err.kind]

Thrown_HookIgnored(kind, onRej, err) == ClassifyFinal(onRej, err)

\* what doFetch throws for the error err caught from the circuit
Thrown(kind, onRej, err) ==
    LET ret == PostResponseError(kind, err)
    IN IF kind # "none" /\ ret.kind # "none"
       THEN ret
       ELSE ClassifyFinal(onRej, err)

\* the container circuit of no second client
NoPeer ==
    [built |-> FALSE, own |-> TRUE, requestsTime |-> <<>>, brk |-> BrkClosed, calls |-> <<>>]

NewCircuit_Singleton ==
    [built |-> TRUE, own |-> FALSE, requestsTime |-> <<>>, brk |-> BrkClosed, calls |-> <<>>]

\* generateFetchWithOptions creates the container circuit of the client it
\* builds, with modules of its own (own: the modules are no other client's);
\* no call is in flight through it
NewCircuit ==
    [built |-> TRUE, own |-> TRUE, requestsTime |-> <<>>, brk |-> BrkClosed, calls |-> <<>>]

---------------------------------------------------------------------------
(* Request options and their resolution (lodash merge, object spread) *)

\* an option that is not given: undefined, or an absent key
Unset == "unset"

\* an absent nested object, and the nested objects of RequestOptions
NoTimeout == [has |-> FALSE, timeoutMs |-> Unset]
NoRetry == [has |-> FALSE, attempts |-> Unset, onRejection |-> Unset]
NoHookOptions == [has |-> FALSE, preRequest |-> Unset, postResponseError |-> Unset]

\* no options at all
NoOptions == [timeout |-> NoTimeout, retry |-> NoRetry, schema |-> Unset, hooks |-> NoHookOptions]

DEFAULT_RETRY_OPTIONS == [has |-> TRUE, attempts |-> "default", onRejection |-> "default"]

DEFAULTS ==
    [timeout |-> [has |-> TRUE, timeoutMs |-> "default"], retry |-> DEFAULT_RETRY_OPTIONS,
     schema |-> Unset, hooks |-> NoHookOptions]

MergeVal_DestinationWins(dst, src) == IF dst = Unset THEN src ELSE dst

\* lodash merge of one source value into a destination value: an undefined
\* source value is skipped
MergeVal(dst, src) == IF src = Unset THEN dst ELSE src

\* lodash merge of a nested plain object: merged key by key
MergeObj(dst, src) ==
    IF ~src.has
    THEN dst
    ELSE [k \in DOMAIN src |-> IF k = "has" THEN TRUE ELSE MergeVal(dst[k], src[k])]

\* merge({}, dst, src)
Merge(dst, src) ==
    [timeout |-> MergeObj(dst.timeout, src.timeout),
     retry |-> MergeObj(dst.retry, src.retry),
     schema |-> MergeVal(dst.schema, src.schema),
     hooks |-> MergeObj(dst.hooks, src.hooks)]

\* { ...a, ...b }: every key b has replaces the key of a as a whole
Spread(a, b) ==
    [timeout |-> IF b.timeout.has THEN b.timeout ELSE a.timeout,
     retry |-> IF b.retry.has THEN b.retry ELSE a.retry,
     schema |-> IF b.schema # Unset THEN b.schema ELSE a.schema,
     hooks |-> IF b.hooks.has THEN b.hooks ELSE a.hooks]

prepareDefaultOptions(options) == Merge(DEFAULTS, options)

\* FetchBuilder.build and generateFetchWithOptions: the options of the client
BuildOptions(builder) == prepareDefaultOptions(Spread(DEFAULTS, builder))

\* the function generateFetchWithOptions returns: the options doFetch is
\* executed with
CallOptions(client, percall) ==
    prepareDefaultOptions(prepareDefaultOptions(Merge(client, percall)))

\* the option objects whose given values all come from `who`
OptionsOf(who) ==
    { [timeout |-> t, retry |-> r, schema |-> sc, hooks |-> h] :
        t \in {NoTimeout, [has |-> TRUE, timeoutMs |-> who]},
        r \in {NoRetry} \cup { [has |-> TRUE, attempts |-> who, onRejection |-> f] :
                                 f \in {Unset, who} },
        sc \in {Unset, who},
        h \in {NoHookOptions} \cup { [has |-> TRUE, preRequest |-> f, postResponseError |-> g] :
                                       f \in {Unset, who}, g \in {Unset, who} } }

---------------------------------------------------------------------------
(* Request init objects and their preparation (prepareDefaultInit) *)

HeaderNames == {"Authorization", "X-Custom-Header", "X-Request-ID", "X-Correlation-Id"}

\* a headers object: the value of every header, "none" for a header it lacks
NoHeaders == [n \in HeaderNames |-> "none"]

\* the headers object whose headers all have the value v
HeadersWith(names, v) == [n \in HeaderNames |-> IF n \in names THEN v ELSE "none"]

\* the headers mergeHeadersWithContext takes from CONTEXT: the correlation id
ContextHeaders == HeadersWith({"X-Correlation-Id"}, "context")

\* lodash merge of a headers object into another, key by key
MergeHeaders(dst, src) ==
    [n \in HeaderNames |-> IF src[n] # "none" THEN src[n] ELSE dst[n]]

\* a RequestInit: whether it has a headers property, that property, its method
InitObject(hasHeaders, headers, method) ==
    [hasHeaders |-> hasHeaders, headers |-> headers, method |-> method]

\* no init, or {}
NoInit == InitObject(FALSE, NoHeaders, Unset)

\* merge({}, dst, src) on RequestInit objects: a fresh object
MergeInit(dst, src) ==
    InitObject(dst.hasHeaders \/ src.hasHeaders,
               IF src.hasHeaders THEN MergeHeaders(dst.headers, src.headers) ELSE dst.headers,
               MergeVal(dst.method, src.method))

mergeHeadersWithContext(init) ==
    MergeHeaders(IF init.hasHeaders THEN init.headers ELSE NoHeaders, ContextHeaders)

\* prepareDefaultInit(init): `result` is the object it returns, `arg` is the
\* object it was given as the call leaves it (`delete init.headers`)
prepareDefaultInit(init) ==
    LET requestInit == InitObject(TRUE, mergeHeadersWithContext(init),
                                  IF init.method # Unset THEN init.method ELSE "GET")
        after == IF init.hasHeaders THEN InitObject(FALSE, NoHeaders, init.method) ELSE init
    IN [result |-> MergeInit(MergeInit(NoInit, after), requestInit), arg |-> after]

\* generateFetchWithOptions(options), called by build(): `client` holds the
\* _init and _requestOptions the returned function closes over, `init` is the
\* object options.init as the call leaves it
generateFetchWithOptions(init, requestOptions) ==
    LET prepared == prepareDefaultInit(init)
    IN [client |-> [init |-> prepared.result,
                    requestOptions |-> prepareDefaultOptions(requestOptions)],
        init |-> prepared.arg]

PerCall_MergeIntoBase(client, init, options) ==
    LET merged == MergeInit(client.init, init)
        first == prepareDefaultInit(merged)
    IN [client |-> [client EXCEPT !.init = first.arg],
        init |-> prepareDefaultInit(first.result).result,
        options |-> CallOptions(client.requestOptions, options)]

\* the function generateFetchWithOptions returns, called with a per-call init
\* and per-call options: `client` is what it closes over as the call leaves
\* it, `init` and `options` are what doFetch is executed with
PerCall(client, init, options) ==
    LET merged == MergeInit(MergeInit(NoInit, client.init), init)
        first == prepareDefaultInit(merged)
    IN [client |-> client,
        init |-> prepareDefaultInit(first.result).result,
        options |-> CallOptions(client.requestOptions, options)]

---------------------------------------------------------------------------
(* The message of an HTTPResponseError *)

\* the responses an HTTPResponseError is constructed from: data is the parsed
\* body or absent, its `error` member absent (or falsy), a string, an array,
\* or an object with or without truthy type, code and message members;
\* dataString is the body text or empty
ErrorResponses ==
    [isJson : BOOLEAN, hasData : BOOLEAN,
     error : { [form |-> f, type |-> FALSE, code |-> FALSE, message |-> FALSE] :
                 f \in {"absent", "string", "array"} }
             \cup [form : {"object"}, type : BOOLEAN, code : BOOLEAN, message : BOOLEAN],
     errorMessages : {"absent", "array", "string"}, dataString : {"", "raw"}]

\* the constructor of HTTPResponseError: the message, as the sequence of the
\* pieces it is concatenated from
ErrorMessage(response, msg) ==
    LET e == response.error
        inData == response.isJson /\ response.hasData
        inError == inData /\ e.form = "object"
        type == IF inError /\ e.type THEN <<"(error.type): ">> ELSE <<>>
        code == IF inError /\ e.code THEN <<"(error.code): ">> ELSE <<>>
        message == IF inError /\ e.message THEN <<"error.message">> ELSE <<>>
        str == IF inData /\ e.form = "string" THEN <<"error">> ELSE <<>>
        joined == IF inData /\ response.errorMessages = "array"
                  THEN <<"errorMessages.join('; ')">> ELSE <<>>
        errorStr == type \o code \o message \o str \o joined
        errIsSet == errorStr # <<>>
        text == IF errIsSet THEN errorStr
                ELSE IF response.dataString # "" THEN <<"dataString">>
                ELSE <<"Unknown error">>
    IN (IF msg # "" THEN <<msg, "; ">> ELSE <<>>)
          \o text \o <<"; ", "HTTP Error Response: status statusText">>

---------------------------------------------------------------------------
(* Initial states *)

\* the options without schema and without circuit breaker
Plain ==
    [schema |-> "none", breaker |-> FALSE, failThr |-> 50, slowThr |-> 100,
     permitted |-> 1, minCalls |-> 1, halfMax |-> 0, preHook |-> "none",
     okHook |-> "none", errHook |-> "none"]

Extend(f, g) == [k \in (DOMAIN f) \cup (DOMAIN g) |-> IF k \in DOMAIN f THEN f[k] ELSE g[k]]

\* a client built with withCircuitBreaker and no retry: failures trip the
\* breaker and slow calls do not, or the reverse; where failures trip it and
\* minimumNumberOfCalls is 1, it comes with a halfOpenStateMaxDelayMs or with
\* none
BrkConfigs ==
    { Extend([failThr |-> x[1][1], slowThr |-> x[1][2], halfMax |-> x[1][3],
              permitted |-> x[2], minCalls |-> x[3], breaker |-> TRUE, attempts |-> 0],
             Extend([onRej |-> "default", rateLimit |-> FALSE, limitForPeriod |-> 1,
                     rlAttempts |-> DEFAULT_RL_ATTEMPTS], Plain)) :
        x \in { y \in { <<50, 100, 0>>, <<50, 100, HalfOpenStateMaxDelayMs>>, <<100, 50, 0>> }
                          \X {1, MaxPermitted} \X {1, MaxMinCalls} :
                     y[1][3] = 0 \/ y[3] = 1 } }

\* a client built with or without rate limit, circuit breaker, schema and
\* hooks, retrying once or not at all; its rate limit comes with the default
\* rate-limit retry options or with none; a postResponseSuccess hook comes
\* without schema and without preRequest hook, a preRequest hook that makes
\* doFetch throw without schema and without retries
ChainConfigs ==
    { Extend(o, Plain) :
        o \in { x \in [attempts : {0, 1}, onRej : {"default"},
                       rateLimit : BOOLEAN, limitForPeriod : {1},
                       rlAttempts : {0, DEFAULT_RL_ATTEMPTS}, breaker : BOOLEAN,
                       schema : {"none", "idString"},
                       preHook : {"none", "void", "rewrite", "throw", "badUrl"},
                       okHook : {"none", "void", "replace", "throw"},
                       errHook : {"none", "void", "replace"}] :
                   /\ x.rateLimit \/ x.rlAttempts = DEFAULT_RL_ATTEMPTS
                   /\ x.okHook = "none" \/ (x.schema = "none" /\ x.preHook = "none")
                   /\ ThrowsBeforeTry(x.preHook) => (x.schema = "none" /\ x.attempts = 0) } }

InitState ==
    /\ now = 0
    /\ pc = [c \in Callers |-> "idle"]
    /\ tries = [c \in Callers |-> 0]
    /\ left = [c \in Callers |-> 0]
    /\ lastErr = [c \in Callers |-> NoErr]
    /\ pending = [c \in Callers |-> {}]
    /\ reading = [c \in Callers |-> {}]
    /\ hist = [c \in Callers |-> <<>>]
    /\ lateSeen = [c \in Callers |-> {}]
    /\ result = [c \in Callers |-> NoErr]
    /\ rlLeft = [c \in Callers |-> 0]
    /\ wake = [c \in Callers |-> 0]
    /\ deniedAt = [c \in Callers |-> -1]
    /\ requestsTime = <<>>
    /\ admitLog = <<>>
    /\ env = [c \in Callers |-> NoEnv]
    /\ brk = BrkClosed
    /\ via = [c \in Callers |-> "none"]
    /\ startedAt = [c \in Callers |-> 0]
    /\ hook = [c \in Callers |-> NoHooks]

\* no second client, no computation
InitCalls == InitState /\ peer = NoPeer /\ calc = [op |-> "none"]

\* the default export `fetch`: no container modules
Init ==
    /\ cfg \in { Extend(o, Plain) :
                    o \in [attempts : 0..MaxAttempts,
                           onRej : {"default", "attemptEq1", "always"},
                           rateLimit : {FALSE}, limitForPeriod : {1},
                           rlAttempts : {DEFAULT_RL_ATTEMPTS}] }
    /\ InitCalls

\* a client built with withRateLimit(limitForPeriod, LimitPeriodMs)
InitRL ==
    /\ cfg \in { Extend(o, Plain) :
                    o \in [attempts : {1}, onRej : {"default"},
                           rateLimit : {TRUE}, limitForPeriod : 1..MaxLimit,
                           rlAttempts : {DEFAULT_RL_ATTEMPTS}] }
    /\ InitCalls

\* a client built with or without withSchema
InitMat ==
    /\ cfg \in { Extend(o, Plain) :
                    o \in [attempts : 0..MaxAttempts, onRej : {"default"},
                           rateLimit : {FALSE}, limitForPeriod : {1},
                           rlAttempts : {DEFAULT_RL_ATTEMPTS},
                           schema : {"none", "idString"}] }
    /\ InitCalls

\* a client built with withCircuitBreaker
InitBrk == cfg \in BrkConfigs /\ InitCalls

\* a client built with or without rate limit and circuit breaker, retrying
\* once or not at all, with the default timeout
InitLive ==
    /\ cfg \in { Extend(o, Plain) :
                    o \in [attempts : {0, 1}, onRej : {"default"},
                           rateLimit : BOOLEAN, limitForPeriod : {1},
                           rlAttempts : {DEFAULT_RL_ATTEMPTS}, breaker : BOOLEAN] }
    /\ InitCalls

\* a client built with any of the policies and hooks
InitChain == cfg \in ChainConfigs /\ InitCalls

\* a client built with withRateLimit(1, LimitPeriodMs) and withCircuitBreaker,
\* without retries
BuiltConfig ==
    Extend([attempts |-> 0, onRej |-> "default", rateLimit |-> TRUE, limitForPeriod |-> 1,
            rlAttempts |-> 0, breaker |-> TRUE], Plain)

\* the callers call a built client or the default `fetch` without retries; a
\* second client is not built yet
InitClients ==
    /\ cfg \in { BuiltConfig,
                  Extend([attempts |-> 0, onRej |-> "default", rateLimit |-> FALSE,
                          limitForPeriod |-> 1, rlAttempts |-> DEFAULT_RL_ATTEMPTS], Plain) }
    /\ InitCalls

\* the default options, for the specifications that issue no call
DefaultConfig ==
    Extend([attempts |-> DEFAULT_ATTEMPTS, onRej |-> "default", rateLimit |-> FALSE,
            limitForPeriod |-> 1, rlAttempts |-> DEFAULT_RL_ATTEMPTS], Plain)

\* a builder that was given some options, and a call that will give some
InitOptions ==
    /\ cfg = DefaultConfig
    /\ InitState
    /\ peer = NoPeer
    /\ calc \in { [op |-> "options", builder |-> b, percall |-> p,
                    client |-> NoOptions, used |-> NoOptions] :
                   b \in OptionsOf("builder"), p \in OptionsOf("percall") }

\* a failed response, about to be wrapped in an HTTPResponseError or in a
\* RetryError
InitMessage ==
    /\ cfg = DefaultConfig
    /\ InitState
    /\ peer = NoPeer
    /\ calc \in { [op |-> "response", response |-> r, msg |-> m, message |-> <<>>] :
                   r \in ErrorResponses,
                   m \in {"", "Retry Error: Ran out of retry attempts."} }

\* the raw responses whose body doGlobalFetch reads or leaves unread
BodyResponses ==
    { RespWithBody(st, "absent", rd, ct, body) :
        st \in {200, 404, 500}, rd \in BOOLEAN,
        ct \in {"application/json", "application/json; charset=utf-8", "text/plain", "absent"},
        body \in {"{\"id\":\"1\"}", "{\"id\":1}", "<html>"} }

\* a raw response that doGlobalFetch just got, under a schema or under none
InitBody ==
    /\ cfg = DefaultConfig
    /\ InitState
    /\ peer = NoPeer
    /\ calc \in { [op |-> "raw", response |-> r, schema |-> sc, reads |-> <<>>,
                    threw |-> "none", env |-> NoEnv] :
                   r \in BodyResponses, sc \in {"none", "idString"} }

\* the init objects handed to withInit
BuilderInits ==
    { InitObject(TRUE, HeadersWith({"Authorization", "X-Custom-Header"}, "builder"), Unset),
      InitObject(TRUE, HeadersWith({"X-Custom-Header"}, "builder"), "POST") }

\* the init and options a call gives: none, or overrides of headers, method,
\* timeout and schema
PerCalls ==
    { [init |-> NoInit, options |-> NoOptions],
      [init |-> InitObject(TRUE, HeadersWith({"Authorization", "X-Request-ID"}, "percall"),
                           "PUT"),
       options |-> [NoOptions EXCEPT !.timeout = [has |-> TRUE, timeoutMs |-> "percall"],
                                     !.schema = "percall"]] }

\* new FetchBuilder(): nothing configured, nothing built; `given` is the
\* object last handed to withInit as it was handed, `withs` counts the
\* with... calls
InitBuilder ==
    /\ cfg = DefaultConfig
    /\ InitState
    /\ peer = NoPeer
    /\ calc = [op |-> "builder", given |-> NoInit, init |-> NoInit,
               requestOptions |-> NoOptions,
               containerOptions |-> [rateLimit |-> [has |-> FALSE, retry |-> Unset],
                                     circuitBreaker |-> Unset],
               withs |-> 0, clients |-> <<>>, requests |-> <<>>]

\* the same, its breaker tripped by failures and letting one probe through
InitTimer == cfg \in { o \in BrkConfigs : o.permitted = 1 /\ o.failThr = 50 } /\ InitCalls

---------------------------------------------------------------------------
(* Actions *)

\* what the breaker becomes when the call of caller c settles, failed or not
BreakerSettle(c, failed) ==
    LET o == BreakerOutcome(failed, now - startedAt[c])
    IN CASE via[c] = "closed" -> AfterClosed(brk, o, now, cfg)
         [] via[c] = "half" -> AfterHalfOpened(brk, o, now, cfg)
         [] OTHER -> brk


\* a module inside the rate-limit Retry module of the container circuit threw
\* err while that module's countdown was rl: the module, when the client has
\* one, asks its predicate, and the call ends with err or waits to run again
Propagate(c, err, rl) ==
    LET verdict == DefaultRateLimitOnRejection(err, cfg.rlAttempts - rl + 1)
    IN IF ~cfg.rateLimit \/ RetryGivesUp(rl, verdict)
       THEN /\ pc' = [pc EXCEPT ![c] = "done"]
            /\ result' = [result EXCEPT ![c] = err]
            /\ rlLeft' = [rlLeft EXCEPT ![c] = rl]
            /\ UNCHANGED wake
       ELSE /\ pc' = [pc EXCEPT ![c] = "rlWait"]
            /\ rlLeft' = [rlLeft EXCEPT ![c] = rl - 1]
            /\ wake' = [wake EXCEPT ![c] =
                           now + (IF verdict.t = "num" THEN verdict.n
                                  ELSE DEFAULT_RL_INTERVAL_MS)]
            /\ UNCHANGED result

\* doFetch gave up with err: hand it to the postResponseError hook, throw what
\* the hook returns or else the classified error through the container
\* circuit, whose breaker records a failure and whose rate-limit Retry module
\* catches it
Fail(c, h, err) ==
    /\ Propagate(c, Thrown(cfg.errHook, cfg.onRej, err), rlLeft[c])
    /\ hook' = [hook EXCEPT ![c] = AfterErrorHook(cfg.errHook, h, err)]
    /\ brk' = BreakerSettle(c, TRUE)
    /\ via' = [via EXCEPT ![c] = "none"]
    /\ startedAt' = [startedAt EXCEPT ![c] = 0]

\* the per-call circuit resolved with res: the postResponseSuccess hook, when
\* there is one, is given it inside the try block; doFetch returns what the
\* hook returns or else res, the breaker records the outcome and the call is
\* over; an error the hook throws is caught by the catch block
Return(c, res) ==
    LET h == IF cfg.okHook = "none" THEN hook[c]
             ELSE [hook[c] EXCEPT !.succ = hook[c].succ + 1]
        hookResult == PostResponseSuccess(cfg.okHook, res)
    IN IF cfg.okHook = "throw"
       THEN Fail(c, h, [kind |-> "Error", status |-> 0, ra |-> "absent", att |-> 0,
                        rem |-> 0])
       ELSE /\ pc' = [pc EXCEPT ![c] = "done"]
            /\ result' = [result EXCEPT ![c] =
                              IF cfg.okHook # "none" /\ hookResult.kind # "none"
                              THEN hookResult ELSE res]
            /\ hook' = [hook EXCEPT ![c] = h]
            /\ brk' = BreakerSettle(c, FALSE)
            /\ via' = [via EXCEPT ![c] = "none"]
            /\ startedAt' = [startedAt EXCEPT ![c] = 0]
            /\ UNCHANGED <<rlLeft, wake>>

\* the per-call Retry module catches err from its latest try
RetryCatch(c, err) ==
    /\ lastErr' = [lastErr EXCEPT ![c] = KeepError(lastErr[c], err)]
    /\ IF RetryGivesUp(left[c], OnRejection(cfg.onRej, err, cfg.attempts - left[c] + 1))
       THEN /\ Fail(c, hook[c], lastErr'[c])
            /\ UNCHANGED left
       ELSE /\ pc' = [pc EXCEPT ![c] = "backoff"]
            /\ left' = [left EXCEPT ![c] = left[c] - 1]
            /\ UNCHANGED <<result, brk, via, startedAt, hook, rlLeft, wake>>

\* the container circuit, the countdown of its rate-limit Retry module at rl,
\* let the call through: doFetch runs the preRequest hook and executes the
\* per-call circuit, which issues the first raw call; when the hook or
\* new URL() throws, doFetch rejects with no circuit executed and no raw call
StartFetch(c, rl) ==
    /\ IF ThrowsBeforeTry(cfg.preHook)
       THEN /\ pc' = [pc EXCEPT ![c] = "threw"]
            /\ hook' = [hook EXCEPT ![c] = AfterPreRequest(cfg.preHook, hook[c], tries[c])]
            /\ UNCHANGED <<tries, left, pending>>
       ELSE /\ pc' = [pc EXCEPT ![c] = "inflight"]
            /\ tries' = [tries EXCEPT ![c] = 1]
            /\ left' = [left EXCEPT ![c] = RetryBudget(cfg.attempts)]
            /\ pending' = [pending EXCEPT ![c] = {1}]
            /\ hook' = [hook EXCEPT ![c] =
                            Issue(AfterPreRequest(cfg.preHook, hook[c], tries[c]))]
    /\ rlLeft' = [rlLeft EXCEPT ![c] = rl]
    /\ UNCHANGED <<result, wake>>

\* the breaker rejects the call with err, which the rate-limit Retry module
\* catches: doFetch is not invoked
Reject(c, err, rl) ==
    /\ Propagate(c, err, rl)
    /\ UNCHANGED <<tries, left, pending, hook>>

\* SlidingCountBreaker._promiseBreaker, up to the invocation of doFetch
BreakerEnter(c, rl) ==
    IF ~cfg.breaker
    THEN /\ StartFetch(c, rl)
         /\ UNCHANGED <<brk, via, startedAt>>
    ELSE LET gate == BreakerGate(brk, cfg)
         IN CASE gate = "BreakerError" ->
                    /\ Reject(c, BreakerError, rl)
                    /\ UNCHANGED <<brk, via, startedAt>>
              [] gate = "BreakerMaxAllowedRequestError" ->
                    /\ Reject(c, BreakerMaxAllowedRequestError, rl)
                    /\ UNCHANGED <<brk, via, startedAt>>
              [] gate = "half" ->
                    /\ StartFetch(c, rl)
                    /\ brk' = [brk EXCEPT !.nbHalf = brk.nbHalf + 1]
                    /\ via' = [via EXCEPT ![c] = "half"]
                    /\ startedAt' = [startedAt EXCEPT ![c] = now]
              [] OTHER ->
                    /\ StartFetch(c, rl)
                    /\ via' = [via EXCEPT ![c] = "closed"]
                    /\ startedAt' = [startedAt EXCEPT ![c] = now]
                    /\ UNCHANGED brk

TryAdmit_DenialPassesOn(c, rl) ==
    /\ BreakerEnter(c, rl)
    /\ UNCHANGED <<deniedAt, requestsTime, admitLog>>

\* one pass through the Ratelimit module under the rate-limit Retry module
\* whose countdown is rl, and on into the breaker
TryAdmit(c, rl) ==
    IF ~cfg.rateLimit
    THEN /\ BreakerEnter(c, rl)
         /\ UNCHANGED <<deniedAt, requestsTime, admitLog>>
    ELSE IF RatelimitAdmits(requestsTime, now, cfg.limitForPeriod, LimitPeriodMs)
    THEN /\ BreakerEnter(c, rl)
         /\ requestsTime' = RatelimitPush(requestsTime, now, cfg.limitForPeriod)
         /\ admitLog' = Append(admitLog, now)
         /\ UNCHANGED deniedAt
    ELSE LET err == RatelimitError(LimitPeriodMs - (now - Head(requestsTime)))
             verdict == DefaultRateLimitOnRejection(err, cfg.rlAttempts - rl + 1)
         IN /\ deniedAt' = [deniedAt EXCEPT ![c] = now]
            /\ IF RetryGivesUp(rl, verdict)
               THEN /\ pc' = [pc EXCEPT ![c] = "done"]
                    /\ result' = [result EXCEPT ![c] = err]
                    /\ UNCHANGED <<rlLeft, wake>>
               ELSE /\ pc' = [pc EXCEPT ![c] = "rlWait"]
                    /\ rlLeft' = [rlLeft EXCEPT ![c] = rl - 1]
                    /\ wake' = [wake EXCEPT ![c] = now + verdict.n]
                    /\ UNCHANGED result
            /\ UNCHANGED <<tries, left, pending, requestsTime, admitLog, brk, via,
                           startedAt, hook>>

Call_AfterWaiters(c) ==
    /\ pc[c] = "idle"
    /\ \A d \in Callers : pc[d] \notin {"backoff", "rlWait"}
    /\ TryAdmit(c, RetryBudget(cfg.rlAttempts))
    /\ UNCHANGED <<cfg, reading, now, lastErr, hist, lateSeen, env, peer, calc>>

\* the rejection of a doFetch that threw before its try block reaches the
\* container circuit: the postResponseError hook has not run, the breaker
\* records a failure and the rate-limit Retry module catches the error, the
\* hook's Error or the TypeError of new URL()
DoFetchThrows(c) ==
    /\ pc[c] = "threw"
    /\ Propagate(c, [kind |-> IF cfg.preHook = "throw" THEN "Error" ELSE "TypeError",
                     status |-> 0, ra |-> "absent", att |-> 0, rem |-> 0], rlLeft[c])
    /\ brk' = BreakerSettle(c, TRUE)
    /\ via' = [via EXCEPT ![c] = "none"]
    /\ startedAt' = [startedAt EXCEPT ![c] = 0]
    /\ UNCHANGED <<cfg, reading, now, tries, left, lastErr, pending, hist, lateSeen, deniedAt,
                   requestsTime, admitLog, env, hook, peer, calc>>

\* the caller invokes the client
Call(c) ==
    /\ pc[c] = "idle"
    /\ TryAdmit(c, RetryBudget(cfg.rlAttempts))
    /\ UNCHANGED <<cfg, reading, now, lastErr, hist, lateSeen, env, peer, calc>>

\* the rate-limit wait of a denied call is over: it asks for admission again
RLWake(c) ==
    /\ pc[c] = "rlWait"
    /\ now >= wake[c]
    /\ TryAdmit(c, rlLeft[c])
    /\ UNCHANGED <<cfg, reading, now, lastErr, hist, lateSeen, env, peer, calc>>

\* doGlobalFetch of attempt i, its raw call settled with response r, returns
\* the response with body or throws an error: to the Timeout module when the
\* race of the attempt is still open, else to nobody
FetchEnds(c, i, r) ==
    /\ pending' = [pending EXCEPT ![c] = pending[c] \ {i}]
    /\ IF RaceOpen(c, i)
       THEN LET m == Materialize(r, cfg.schema)
            IN /\ hist' = [hist EXCEPT ![c] = Append(hist[c], r)]
               /\ env' = [env EXCEPT ![c] = EnvOf(m)]
               /\ IF m.threw
                  THEN RetryCatch(c, SchemaError(i))
                  ELSE IF Succeeds(r)
                  THEN /\ Return(c, Envelope(r, i))
                       /\ UNCHANGED <<left, lastErr>>
                  ELSE RetryCatch(c, HTTPResponseError(r, i))
               /\ UNCHANGED lateSeen
       ELSE /\ lateSeen' = [lateSeen EXCEPT ![c] = lateSeen[c] \cup {i}]
            /\ UNCHANGED <<pc, hist, result, left, lastErr, env, brk, via, startedAt,
                           hook, rlLeft, wake>>

\* the raw call of attempt i settles with response r: doGlobalFetch runs up to
\* its first await, the read of the body, or to its end when it reads none
RawSettle(c, i, r) ==
    /\ i \in pending[c]
    /\ \A b \in reading[c] : b.att # i
    /\ IF AwaitsText(r)
       THEN /\ reading' = [reading EXCEPT ![c] = reading[c] \cup {[att |-> i, resp |-> r, at |-> "text"]}]
            /\ UNCHANGED <<pc, pending, hist, lateSeen, result, left, lastErr, env, brk,
                           via, startedAt, hook, rlLeft, wake>>
       ELSE /\ FetchEnds(c, i, r)
            /\ UNCHANGED reading
    /\ UNCHANGED <<cfg, now, tries, deniedAt, requestsTime, admitLog, peer, calc>>

\* the body of the response of attempt i is read: doGlobalFetch runs up to its
\* next await, the schema validation, or to its end when it validates nothing
BodyRead(c, i) ==
    /\ \E b \in reading[c] :
          /\ b.att = i
          /\ b.at = "text"
          /\ IF AwaitsValidation(b.resp, cfg.schema)
             THEN /\ reading' = [reading EXCEPT ![c] = (reading[c] \ {b}) \cup
                                                    {[b EXCEPT !.at = "validation"]}]
                  /\ UNCHANGED <<pc, pending, hist, lateSeen, result, left, lastErr, env,
                                 brk, via, startedAt, hook, rlLeft, wake>>
             ELSE /\ FetchEnds(c, i, b.resp)
                  /\ reading' = [reading EXCEPT ![c] = reading[c] \ {b}]
    /\ UNCHANGED <<cfg, now, tries, deniedAt, requestsTime, admitLog, peer, calc>>

\* the schema validation of the body of attempt i is done: doGlobalFetch runs
\* to its end
Validated(c, i) ==
    /\ \E b \in reading[c] :
          /\ b.att = i
          /\ b.at = "validation"
          /\ FetchEnds(c, i, b.resp)
          /\ reading' = [reading EXCEPT ![c] = reading[c] \ {b}]
    /\ UNCHANGED <<cfg, now, tries, deniedAt, requestsTime, admitLog, peer, calc>>

\* the raw call of attempt i rejects with a TypeError: the transport failed
\* and there is no response
RawReject(c, i) ==
    /\ i \in pending[c]
    /\ \A b \in reading[c] : b.att # i
    /\ pending' = [pending EXCEPT ![c] = pending[c] \ {i}]
    /\ IF RaceOpen(c, i)
       THEN /\ hist' = [hist EXCEPT ![c] =
                            Append(hist[c], [kind |-> "neterr", status |-> 0, ok |-> FALSE,
                                             ra |-> "absent", redirected |-> FALSE,
                                             ct |-> "absent", body |-> ""])]
            /\ env' = [env EXCEPT ![c] = NoEnv]
            /\ RetryCatch(c, [kind |-> "TypeError", status |-> 0, ra |-> "absent",
                              att |-> i, rem |-> 0])
            /\ UNCHANGED lateSeen
       ELSE /\ lateSeen' = [lateSeen EXCEPT ![c] = lateSeen[c] \cup {i}]
            /\ UNCHANGED <<pc, hist, result, left, lastErr, env, brk, via, startedAt,
                           hook, rlLeft, wake>>
    /\ UNCHANGED <<cfg, reading, now, tries, deniedAt, requestsTime, admitLog, peer, calc>>

TimeoutFire_NoDeadline(c) ==
    /\ pc[c] = "inflight"
    /\ tries[c] \in pending[c]
    /\ tries[c] \notin pending[c]
    /\ hist' = [hist EXCEPT ![c] = Append(hist[c], TimedOut)]
    /\ env' = [env EXCEPT ![c] = NoEnv]
    /\ RetryCatch(c, TimeoutError(tries[c]))
    /\ UNCHANGED <<cfg, reading, now, tries, pending, lateSeen, deniedAt, requestsTime,
                   admitLog, peer, calc>>

\* the deadline of the attempt in flight elapses before its doGlobalFetch ends
TimeoutFire(c) ==
    /\ pc[c] = "inflight"
    /\ tries[c] \in pending[c]
    /\ hist' = [hist EXCEPT ![c] = Append(hist[c], TimedOut)]
    /\ env' = [env EXCEPT ![c] = NoEnv]
    /\ RetryCatch(c, TimeoutError(tries[c]))
    /\ UNCHANGED <<cfg, reading, now, tries, pending, lateSeen, deniedAt, requestsTime,
                   admitLog, peer, calc>>

BackoffDone_TakesAdmission(c) ==
    /\ pc[c] = "backoff"
    /\ pc' = [pc EXCEPT ![c] = "inflight"]
    /\ tries' = [tries EXCEPT ![c] = tries[c] + 1]
    /\ pending' = [pending EXCEPT ![c] = pending[c] \cup {tries[c] + 1}]
    /\ hook' = [hook EXCEPT ![c] = Issue(hook[c])]
    /\ requestsTime' = RatelimitPush(requestsTime, now, cfg.limitForPeriod)
    /\ admitLog' = Append(admitLog, now)
    /\ UNCHANGED <<cfg, reading, now, left, lastErr, hist, lateSeen, result, rlLeft, wake,
                   deniedAt, env, brk, via, startedAt, peer, calc>>

\* the retry delay is over: the per-call Retry module issues the next raw call
BackoffDone(c) ==
    /\ pc[c] = "backoff"
    /\ pc' = [pc EXCEPT ![c] = "inflight"]
    /\ tries' = [tries EXCEPT ![c] = tries[c] + 1]
    /\ pending' = [pending EXCEPT ![c] = pending[c] \cup {tries[c] + 1}]
    /\ hook' = [hook EXCEPT ![c] = Issue(hook[c])]
    /\ UNCHANGED <<cfg, reading, now, left, lastErr, hist, lateSeen, result, rlLeft, wake,
                   deniedAt, requestsTime, admitLog, env, brk, via, startedAt,
                   peer, calc>>

\* the caller, its call settled and its raw calls too, is free for its next call
Again(c) ==
    /\ pc[c] = "done"
    /\ pending[c] = {}
    /\ pc' = [pc EXCEPT ![c] = "idle"]
    /\ tries' = [tries EXCEPT ![c] = 0]
    /\ left' = [left EXCEPT ![c] = 0]
    /\ lastErr' = [lastErr EXCEPT ![c] = NoErr]
    /\ hist' = [hist EXCEPT ![c] = <<>>]
    /\ lateSeen' = [lateSeen EXCEPT ![c] = {}]
    /\ result' = [result EXCEPT ![c] = NoErr]
    /\ rlLeft' = [rlLeft EXCEPT ![c] = 0]
    /\ wake' = [wake EXCEPT ![c] = 0]
    /\ deniedAt' = [deniedAt EXCEPT ![c] = -1]
    /\ env' = [env EXCEPT ![c] = NoEnv]
    /\ hook' = [hook EXCEPT ![c] = NoHooks]
    /\ UNCHANGED <<cfg, reading, now, pending, requestsTime, admitLog, brk, via, startedAt,
                   peer, calc>>

\* the timer armed by open() is due
TimerDue == cfg.breaker /\ brk.state = "opened" /\ now >= brk.openDue

\* the timer armed by open() of the second client's breaker is due
PeerTimerDue ==
    peer.built /\ peer.own /\ peer.brk.state = "opened" /\ now >= peer.brk.openDue

\* the timer of halfOpenStateMaxDelay, armed by halfOpen(), is due
HalfOpenTimerDue ==
    cfg.breaker /\ brk.state = "half-opened" /\ brk.halfDue > 0 /\ now >= brk.halfDue

\* time passes, no further than the next timer that is due
Tick ==
    /\ now < MaxTicks * TickMs
    /\ ~TimerDue
    /\ ~HalfOpenTimerDue
    /\ ~PeerTimerDue
    /\ now' = now + TickMs
    /\ UNCHANGED <<cfg, reading, pc, tries, left, lastErr, pending, hist, lateSeen, result,
                   rlLeft, wake, deniedAt, requestsTime, admitLog, env, brk, via,
                   startedAt, hook, peer, calc>>

\* the timer armed by open() fires: the breaker half-opens
OpenTimer ==
    /\ TimerDue
    /\ brk' = BreakerHalfOpen(brk, now, cfg)
    /\ UNCHANGED <<cfg, reading, now, pc, tries, left, lastErr, pending, hist, lateSeen, result,
                   rlLeft, wake, deniedAt, requestsTime, admitLog, env, via, startedAt,
                   hook, peer, calc>>

\* the timer of halfOpenStateMaxDelay fires: the breaker goes back to Open
HalfOpenTimer ==
    /\ HalfOpenTimerDue
    /\ brk' = BreakerOpen(brk, now)
    /\ UNCHANGED <<cfg, reading, now, pc, tries, left, lastErr, pending, hist, lateSeen, result,
                   rlLeft, wake, deniedAt, requestsTime, admitLog, env, via, startedAt,
                   hook, peer, calc>>

\* a second client is built, with the options BuiltConfig
BuildPeer ==
    /\ ~peer.built
    /\ peer' = NewCircuit
    /\ UNCHANGED <<callVars, calc>>

\* a call enters the container circuit st at time t: the limiter admits or
\* denies it, the breaker lets it through to doFetch, closed or as a
\* half-open probe, or rejects it
PeerEnter(st, t) ==
    IF ~RatelimitAdmits(st.requestsTime, t, BuiltConfig.limitForPeriod, LimitPeriodMs)
    THEN [requestsTime |-> st.requestsTime, brk |-> st.brk, via |-> "denied"]
    ELSE LET admitted == RatelimitPush(st.requestsTime, t, BuiltConfig.limitForPeriod)
             gate == BreakerGate(st.brk, BuiltConfig)
         IN CASE gate = "closed" ->
                    [requestsTime |-> admitted, brk |-> st.brk, via |-> "closed"]
              [] gate = "half" ->
                    [requestsTime |-> admitted,
                     brk |-> [st.brk EXCEPT !.nbHalf = st.brk.nbHalf + 1], via |-> "half"]
              [] OTHER -> [requestsTime |-> admitted, brk |-> st.brk, via |-> "rejected"]

\* the breaker b at time t after doFetch of the call in flight `call` ended,
\* failed or not: it records the outcome on the branch the call went through
PeerLeave(b, call, failed, t) ==
    LET o == BreakerOutcome(failed, t - call.startedAt)
    IN IF call.via = "closed"
       THEN AfterClosed(b, o, t, BuiltConfig)
       ELSE AfterHalfOpened(b, o, t, BuiltConfig)

\* a call through the second client starts: it enters the circuit that client
\* holds and, let through, issues its raw call and is in flight
PeerCall ==
    /\ peer.built
    /\ Len(peer.calls) < MaxPeerCalls
    /\ LET held == IF peer.own
                   THEN [requestsTime |-> peer.requestsTime, brk |-> peer.brk]
                   ELSE [requestsTime |-> requestsTime, brk |-> brk]
           st == PeerEnter(held, now)
           calls == IF st.via \in {"closed", "half"}
                    THEN Append(peer.calls, [via |-> st.via, startedAt |-> now])
                    ELSE peer.calls
       IN IF peer.own
          THEN /\ peer' = [peer EXCEPT !.requestsTime = st.requestsTime, !.brk = st.brk,
                                       !.calls = calls]
               /\ UNCHANGED <<requestsTime, brk>>
          ELSE /\ requestsTime' = st.requestsTime
               /\ brk' = st.brk
               /\ peer' = [peer EXCEPT !.calls = calls]
    /\ UNCHANGED <<cfg, reading, now, pc, tries, left, lastErr, pending, hist, lateSeen,
                   result, rlLeft, wake, deniedAt, admitLog, env, via, startedAt, hook,
                   calc>>

\* doFetch of the call in flight k of the second client ends, its raw call
\* having brought response r: the breaker of the circuit that client holds
\* records the outcome
PeerReturn(k, r) ==
    /\ peer.built
    /\ k \in 1..Len(peer.calls)
    /\ LET rest == [n \in 1..(Len(peer.calls) - 1) |->
                       IF n < k THEN peer.calls[n] ELSE peer.calls[n + 1]]
       IN IF peer.own
          THEN /\ peer' = [peer EXCEPT
                             !.brk = PeerLeave(peer.brk, peer.calls[k], ~Succeeds(r), now),
                             !.calls = rest]
               /\ UNCHANGED brk
          ELSE /\ brk' = PeerLeave(brk, peer.calls[k], ~Succeeds(r), now)
               /\ peer' = [peer EXCEPT !.calls = rest]
    /\ UNCHANGED <<cfg, reading, now, pc, tries, left, lastErr, pending, hist, lateSeen,
                   result, rlLeft, wake, deniedAt, requestsTime, admitLog, env, via,
                   startedAt, hook, calc>>

\* the timer armed by open() of the second client's breaker fires
PeerOpenTimer ==
    /\ PeerTimerDue
    /\ peer' = [peer EXCEPT !.brk = BreakerHalfOpen(peer.brk, now, BuiltConfig)]
    /\ UNCHANGED <<callVars, calc>>

\* FetchBuilder.build: the client's options are resolved
Build ==
    /\ calc.op = "options"
    /\ calc' = [calc EXCEPT !.op = "built", !.client = BuildOptions(calc.builder)]
    /\ UNCHANGED <<callVars, peer>>

\* a call through the built client: the call's options are resolved
Resolve ==
    /\ calc.op = "built"
    /\ calc' = [calc EXCEPT !.op = "resolved",
                            !.used = CallOptions(calc.client, calc.percall)]
    /\ UNCHANGED <<callVars, peer>>

\* new HTTPResponseError(response, msg)
Construct ==
    /\ calc.op = "response"
    /\ calc' = [calc EXCEPT !.op = "error",
                            !.message = ErrorMessage(calc.response, calc.msg)]
    /\ UNCHANGED <<callVars, peer>>

\* the end of doGlobalFetch for the response it holds, `read` set or not: it
\* returns the response with body or throws
Concluded(read) ==
    LET m == Materialize(calc.response, calc.schema)
        throws == ~m.threw /\ ~Succeeds(calc.response)
    IN [calc EXCEPT
          !.op = "fetched",
          !.reads = IF throws THEN calc.reads \o ReadBeforeThrow(read) ELSE calc.reads,
          !.env = EnvOf(m),
          !.threw = IF m.threw THEN "HumanReadableSchemaError"
                    ELSE IF throws THEN "HTTPResponseError"
                    ELSE "none"]

\* doGlobalFetch from the response of the raw call to its first await: the
\* read of the body in the JSON branch, or the read before the throw for a
\* failed response of another content type; it returns at once an ok or
\* redirected response of another content type
GlobalFetch ==
    /\ calc.op = "raw"
    /\ calc' = IF IncludesJson(calc.response.ct)
               THEN [calc EXCEPT !.op = "text", !.reads = <<"text">>]
               ELSE IF Succeeds(calc.response)
               THEN Concluded(FALSE)
               ELSE [calc EXCEPT !.op = "failedText", !.reads = ReadBeforeThrow(FALSE)]
    /\ UNCHANGED <<callVars, peer>>

\* the body text read in the JSON branch arrives: doGlobalFetch parses it and
\* runs to the await of the schema validation, or to its end
TextRead ==
    /\ calc.op = "text"
    /\ calc' = IF AwaitsValidation(calc.response, calc.schema)
               THEN [calc EXCEPT !.op = "validation"]
               ELSE Concluded(TRUE)
    /\ UNCHANGED <<callVars, peer>>

\* handleSchemaValidation is done: doGlobalFetch runs to its end
ValidationDone ==
    /\ calc.op = "validation"
    /\ calc' = Concluded(TRUE)
    /\ UNCHANGED <<callVars, peer>>

\* the body text read before the throw arrives: doGlobalFetch throws the
\* HTTPResponseError
FailedTextRead ==
    /\ calc.op = "failedText"
    /\ calc' = [calc EXCEPT !.op = "fetched",
                            !.env = EnvOf(Materialize(calc.response, calc.schema)),
                            !.threw = "HTTPResponseError"]
    /\ UNCHANGED <<callVars, peer>>

\* a with... method of the builder sets the init object, the request options
\* or the container options to the values given
With(init, requestOptions, containerOptions) ==
    /\ calc.op = "builder"
    /\ calc.withs < MaxWiths
    /\ calc' = [calc EXCEPT !.init = init, !.requestOptions = requestOptions,
                            !.containerOptions = containerOptions,
                            !.withs = calc.withs + 1,
                            !.given = IF init = calc.init THEN calc.given ELSE init]
    /\ UNCHANGED <<callVars, peer>>

\* withInit(init): this._init = init
WithInit(init) ==
    /\ init # calc.init
    /\ With(init, calc.requestOptions, calc.containerOptions)

\* withTimeout(timeoutMs): { ...this._requestOptions, timeout: { timeoutMs } }
WithTimeout ==
    /\ calc.op = "builder"
    /\ With(calc.init,
            [calc.requestOptions EXCEPT !.timeout = [has |-> TRUE, timeoutMs |-> "builder"]],
            calc.containerOptions)

\* withRetry(options): { ...this._requestOptions, retry: options }
WithRetry ==
    /\ calc.op = "builder"
    /\ With(calc.init,
            [calc.requestOptions EXCEPT
               !.retry = [has |-> TRUE, attempts |-> "builder", onRejection |-> Unset]],
            calc.containerOptions)

\* withHooks(hooks): { ...this._requestOptions, hooks }
WithHooks ==
    /\ calc.op = "builder"
    /\ With(calc.init,
            [calc.requestOptions EXCEPT
               !.hooks = [has |-> TRUE, preRequest |-> "builder", postResponseError |-> Unset]],
            calc.containerOptions)

\* withRateLimit(limitForPeriod, limitPeriodMs): the retry options default to
\* DEFAULT_RATE_LIMIT_RETRY_OPTIONS
WithRateLimit ==
    /\ calc.op = "builder"
    /\ With(calc.init, calc.requestOptions,
            [calc.containerOptions EXCEPT !.rateLimit = [has |-> TRUE, retry |-> "default"]])

\* withCircuitBreaker(options)
WithCircuitBreaker ==
    /\ calc.op = "builder"
    /\ With(calc.init, calc.requestOptions,
            [calc.containerOptions EXCEPT !.circuitBreaker = "builder"])

\* withContainerOptions(options): { ...this._containerOptions, ...options },
\* the options given being a rate limit without retry options
WithContainerOptions ==
    /\ calc.op = "builder"
    /\ With(calc.init, calc.requestOptions,
            [calc.containerOptions EXCEPT !.rateLimit = [has |-> TRUE, retry |-> Unset]])

\* build(): the container options, the rate limit given its default retry
\* options when it has none
BuildContainerOptions(options) ==
    IF options.rateLimit.has
    THEN [options EXCEPT !.rateLimit.retry =
                            IF options.rateLimit.retry = Unset THEN "default"
                            ELSE options.rateLimit.retry]
    ELSE options

\* FetchBuilder.build(): a client is generated from the builder's init object
\* and options; `built` keeps what the client was built with and as, `after`
\* the number of with... calls that came before
BuildClient ==
    /\ calc.op = "builder"
    /\ Len(calc.clients) < MaxBuilds
    /\ LET g == generateFetchWithOptions(calc.init, Spread(DEFAULTS, calc.requestOptions))
       IN calc' = [calc EXCEPT
                     !.init = g.init,
                     !.clients = Append(calc.clients,
                                        [held |-> g.client, built |-> g.client,
                                         container |-> BuildContainerOptions(calc.containerOptions),
                                         from |-> calc.init, after |-> calc.withs])]
    /\ UNCHANGED <<callVars, peer>>

\* a request through client k with the per-call init and options given
Request(k, init, options) ==
    /\ calc.op = "builder"
    /\ k \in 1..Len(calc.clients)
    /\ Len(calc.requests) < MaxRequests
    /\ LET r == PerCall(calc.clients[k].held, init, options)
       IN calc' = [calc EXCEPT
                     !.clients[k].held = r.client,
                     !.requests = Append(calc.requests,
                                         [client |-> k, given |-> [init |-> init, options |-> options],
                                          init |-> r.init, options |-> r.options])]
    /\ UNCHANGED <<callVars, peer>>

---------------------------------------------------------------------------
(* Specifications *)

\* one call through the default `fetch`
Next ==
    \/ Call(1)
    \/ \E i \in 1..(MaxAttempts + 2), r \in Responses : RawSettle(1, i, r)
    \/ \E i \in 1..(MaxAttempts + 2) : BodyRead(1, i)
    \/ \E i \in 1..(MaxAttempts + 2) : RawReject(1, i)
    \/ TimeoutFire(1)
    \/ BackoffDone(1)

Spec == Init /\ [][Next]_vars

\* concurrent and successive calls of two callers through one rate-limited
\* client whose raw calls all settle before their deadline
NextRL ==
    \/ \E c \in 1..2 : Call(c)
    \/ \E c \in 1..2 : RLWake(c)
    \/ \E c \in 1..2, i \in 1..2, r \in RLResponses : RawSettle(c, i, r)
    \/ \E c \in 1..2, i \in 1..2 : BodyRead(c, i)
    \/ \E c \in 1..2 : BackoffDone(c)
    \/ \E c \in 1..2 : Again(c)
    \/ Tick

SpecRL == InitRL /\ [][NextRL]_vars

\* successive calls of a single caller through one rate-limited client: each
\* call is issued after the previous one has settled
NextSeq ==
    \/ Call(1)
    \/ RLWake(1)
    \/ \E i \in 1..2, r \in RLResponses : RawSettle(1, i, r)
    \/ \E i \in 1..2 : BodyRead(1, i)
    \/ BackoffDone(1)
    \/ Again(1)
    \/ Tick

SpecSeq == InitRL /\ [][NextSeq]_vars

\* the raw responses a call with or without schema is given
MatResponses ==
    { RespWithBody(st, "absent", FALSE, ct, body) :
        st \in {200, 299},
        ct \in {"application/json", "application/json; charset=utf-8", "text/plain", "absent"},
        body \in {"{\"id\":\"1\"}", "{\"id\":1}", "<html>"} }
    \cup { Resp(500, "absent", FALSE),
           RespWithBody(404, "absent", FALSE, "text/plain", "<html>"),
           RespWithBody(404, "absent", TRUE, "application/json", "{\"id\":1}") }

\* one call through a client built with or without a schema
NextMat ==
    \/ Call(1)
    \/ \E i \in 1..(MaxAttempts + 2), r \in MatResponses : RawSettle(1, i, r)
    \/ \E i \in 1..(MaxAttempts + 2) : BodyRead(1, i)
    \/ \E i \in 1..(MaxAttempts + 2) : Validated(1, i)
    \/ BackoffDone(1)

SpecMat == InitMat /\ [][NextMat]_vars

\* concurrent and successive calls through one client with a circuit breaker
\* and no retry
NextBrk ==
    \/ \E c \in Callers : Call(c)
    \/ \E c \in Callers, r \in RLResponses : RawSettle(c, 1, r)
    \/ \E c \in Callers : BodyRead(c, 1)
    \/ \E c \in Callers : Again(c)
    \/ Tick
    \/ OpenTimer
    \/ HalfOpenTimer

SpecBrk == InitBrk /\ [][NextBrk]_vars

\* the same for the clients whose breaker is tripped by failures and lets one
\* probe through, where time passes and due timers fire
SpecBrkFair ==
    /\ InitTimer
    /\ [][NextBrk]_vars
    /\ WF_vars(Tick) /\ WF_vars(OpenTimer) /\ WF_vars(HalfOpenTimer)

\* the raw responses a call through the whole chain is given
ChainResponses ==
    { Resp(200, "absent", FALSE), Resp(404, "absent", FALSE), Resp(500, "absent", FALSE),
      RespWithBody(200, "absent", FALSE, "application/json", "{\"id\":\"1\"}") }

\* successive calls of a single caller through one client built with any of
\* the policies and hooks
NextChain ==
    \/ Call(1)
    \/ RLWake(1)
    \/ DoFetchThrows(1)
    \/ \E i \in 1..2, r \in ChainResponses : RawSettle(1, i, r)
    \/ \E i \in 1..2 : BodyRead(1, i)
    \/ \E i \in 1..2 : Validated(1, i)
    \/ \E i \in 1..2 : RawReject(1, i)
    \/ TimeoutFire(1)
    \/ BackoffDone(1)
    \/ Again(1)
    \/ Tick
    \/ OpenTimer

SpecChain == InitChain /\ [][NextChain]_vars

\* one call of each of two callers, at the same time as the other's or after it,
\* through one client or through the default `fetch`, next to the calls,
\* concurrent or successive, through a second, separately built client
NextClients ==
    \/ \E c \in 1..2 : Call(c)
    \/ \E c \in 1..2, r \in RLResponses : RawSettle(c, 1, r)
    \/ \E c \in 1..2 : BodyRead(c, 1)
    \/ Tick
    \/ OpenTimer
    \/ BuildPeer
    \/ PeerCall
    \/ \E k \in 1..MaxPeerCalls, r \in RLResponses : PeerReturn(k, r)
    \/ PeerOpenTimer

SpecClients == InitClients /\ [][NextClients]_vars

\* one call of each of two callers through one client; a raw call settles at
\* any time or never
NextLive ==
    \/ \E c \in 1..2 : Call(c)
    \/ \E c \in 1..2 : RLWake(c)
    \/ \E c \in 1..2, i \in 1..2, r \in RLResponses : RawSettle(c, i, r)
    \/ \E c \in 1..2, i \in 1..2 : BodyRead(c, i)
    \/ \E c \in 1..2 : TimeoutFire(c)
    \/ \E c \in 1..2 : BackoffDone(c)
    \/ Tick
    \/ OpenTimer

\* the same where time passes and every timer that is due fires: the deadline
\* of an attempt, a retry delay, a rate-limit wait, the breaker's delay
SpecLive ==
    /\ InitLive
    /\ [][NextLive]_vars
    /\ WF_vars(Tick)
    /\ WF_vars(OpenTimer)
    /\ \A c \in 1..2 :
          /\ WF_vars(TimeoutFire(c))
          /\ WF_vars(BackoffDone(c))
          /\ WF_vars(RLWake(c))

\* the options of a client and of one call through it are resolved
NextOptions ==
    \/ Build
    \/ Resolve

SpecOptions == InitOptions /\ [][NextOptions]_vars

\* an HTTPResponseError is constructed from a failed response
NextMessage == Construct

SpecMessage == InitMessage /\ [][NextMessage]_vars

\* one FetchBuilder is configured, clients are built from it and requests go
\* through them, in any order
NextBuilder ==
    \/ \E g \in BuilderInits : WithInit(g)
    \/ WithTimeout
    \/ WithRetry
    \/ WithHooks
    \/ WithRateLimit
    \/ WithCircuitBreaker
    \/ WithContainerOptions
    \/ BuildClient
    \/ \E k \in 1..MaxBuilds, g \in PerCalls : Request(k, g.init, g.options)

SpecBuilder == InitBuilder /\ [][NextBuilder]_vars

\* doGlobalFetch handles one raw response, from await to await
NextBody ==
    \/ GlobalFetch
    \/ TextRead
    \/ ValidationDone
    \/ FailedTextRead

SpecBody == InitBody /\ [][NextBody]_vars

---------------------------------------------------------------------------
(* Vocabulary of the properties: what an attempt's outcome was, read off    *)
(* the raw response itself                                                  *)

HttpFailure(o) == o.kind = "resp" /\ ~o.ok /\ ~o.redirected
RetryableStatus(o) == o.status = 429 \/ o.status >= 500
FailsRetryably(o) == o.kind = "timeout" \/ (HttpFailure(o) /\ RetryableStatus(o))
AttemptSucceeds(o) == o.kind = "resp" /\ (o.ok \/ o.redirected)
AllFailRetryably(c) ==
    /\ pc[c] = "done"
    /\ Len(hist[c]) > 0
    /\ \A i \in 1..Len(hist[c]) : FailsRetryably(hist[c][i])
Failed(c) == pc[c] = "done" /\ result[c].kind \notin {"none", "ok"}

---------------------------------------------------------------------------
(* C1: as claimed, a request under the default retry predicate whose every  *)
(* attempt fails retryably issues exactly `attempts` raw calls in total.    *)
C1_AttemptsTotalTries ==
    \A c \in Callers :
        (AllFailRetryably(c) /\ cfg.onRej = "default" /\ cfg.attempts >= 1)
            => tries[c] = cfg.attempts

(* C1, amended: such a request issues exactly attempts + 1 raw calls before *)
(* giving up: `attempts` counts the retries that follow the first try.      *)
C1_AttemptsPlusOneTries ==
    \A c \in Callers :
        (AllFailRetryably(c) /\ cfg.onRej = "default")
            => (tries[c] = cfg.attempts + 1 /\ Failed(c))

C1_Witness ==
    /\ AllFailRetryably(1) /\ cfg.onRej = "default" /\ cfg.attempts = 1
    /\ tries[1] = 2
    /\ hist[1][1].kind = "timeout" /\ hist[1][2].kind = "resp"

(* C2: with the default options (retry attempts 2) a request whose every    *)
(* attempt fails retryably issues exactly 3 raw calls and then throws.      *)
C2_DefaultIssuesThreeRawCalls ==
    \A c \in Callers :
        (AllFailRetryably(c) /\ cfg.onRej = "default" /\ cfg.attempts = DEFAULT_ATTEMPTS)
            => (tries[c] = 3 /\ Len(hist[c]) = 3 /\ Failed(c))

C2_Witness ==
    /\ AllFailRetryably(1) /\ cfg.onRej = "default" /\ cfg.attempts = DEFAULT_ATTEMPTS
    /\ tries[1] = 3
    /\ result[1].kind = "RetryError"

(* C3: as claimed, whenever the attempt budget is exhausted and the last    *)
(* attempt failed at HTTP level with a retryable status, whatever its       *)
(* headers, the error thrown is a RetryError.                               *)
C3_ExhaustedHttpFailureIsRetryError ==
    \A c \in Callers :
        (/\ pc[c] = "done" /\ cfg.onRej = "default"
         /\ Len(hist[c]) = cfg.attempts + 1
         /\ HttpFailure(hist[c][Len(hist[c])])
         /\ RetryableStatus(hist[c][Len(hist[c])]))
            => result[c].kind = "RetryError"

(* C4: the status carried by a RetryError is the status of the last attempt *)
(* made, and the RetryError is that attempt's failure.                      *)
C4_RetryErrorCarriesLastStatus ==
    \A c \in Callers :
        result[c].kind = "RetryError"
            => /\ Len(hist[c]) = tries[c]
               /\ HttpFailure(hist[c][tries[c]])
               /\ result[c].status = hist[c][tries[c]].status
               /\ result[c].att = tries[c]

C4_Witness ==
    /\ result[1].kind = "RetryError"
    /\ tries[1] = 3
    /\ hist[1][1].kind = "resp" /\ hist[1][1].status = 429
    /\ hist[1][2].kind = "resp" /\ hist[1][2].status = 500
    /\ result[1].status = 503

(* C5: as claimed, for every retry configuration a RetryError is thrown     *)
(* only after the whole attempt budget has been spent.                      *)
C5_RetryErrorOnlyWhenExhausted ==
    \A c \in Callers :
        result[c].kind = "RetryError" => tries[c] = cfg.attempts + 1

(* C6: a call whose final failure is a timeout throws that attempt's        *)
(* TimeoutError, never a RetryError or an HTTPResponseError.                *)
C6_TimeoutPropagatesUnchanged ==
    \A c \in Callers :
        (/\ pc[c] = "done" /\ Len(hist[c]) > 0
         /\ hist[c][Len(hist[c])].kind = "timeout")
            => result[c] = [kind |-> "TimeoutError", status |-> 0, ra |-> "absent",
                            att |-> tries[c], rem |-> 0]

C6_Witness ==
    /\ pc[1] = "done" /\ cfg.attempts = 2 /\ Len(hist[1]) = 3
    /\ \A i \in 1..3 : hist[1][i].kind = "timeout"
    /\ result[1].kind = "TimeoutError"

(* C7: under the default retry predicate a response that is neither ok nor  *)
(* redirected and whose status is not retryable ends the call at once with  *)
(* an HTTPResponseError carrying that status: it is the last attempt, no    *)
(* raw call follows it, and when it is the first response exactly one raw   *)
(* call was made.                                                           *)
C7_NonRetryableFailsWithoutRetry ==
    \A c \in Callers : \A i \in 1..Len(hist[c]) :
        (cfg.onRej = "default" /\ HttpFailure(hist[c][i]) /\ ~RetryableStatus(hist[c][i]))
            => /\ pc[c] = "done"
               /\ result[c].kind = "HTTPResponseError"
               /\ result[c].status = hist[c][i].status
               /\ i = Len(hist[c])
               /\ tries[c] = i

C7_Witness ==
    /\ cfg.onRej = "default" /\ cfg.attempts = 2
    /\ hist[1] = <<Resp(404, "absent", FALSE)>>
    /\ pc[1] = "done" /\ tries[1] = 1
    /\ result[1].kind = "HTTPResponseError" /\ result[1].status = 404

(* C8: an attempt that succeeds ends the call: the call returns that        *)
(* attempt's response, throws nothing, and no raw call is issued after it.  *)
C8_SuccessAfterFailuresReturns ==
    \A c \in Callers : \A i \in 1..Len(hist[c]) :
        AttemptSucceeds(hist[c][i])
            => /\ pc[c] = "done"
               /\ result[c].kind = "ok"
               /\ result[c].status = hist[c][i].status
               /\ result[c].att = i
               /\ i = Len(hist[c])
               /\ tries[c] = i

C8_Witness ==
    /\ Len(hist[1]) = 3
    /\ hist[1][1].kind = "resp" /\ hist[1][1].status = 429
    /\ hist[1][2].kind = "timeout"
    /\ AttemptSucceeds(hist[1][3])
    /\ result[1].kind = "ok" /\ tries[1] = 3

(* C9: an attempt whose deadline elapses first fails with TimeoutError and  *)
(* its raw call's late response is discarded: the response a call returns   *)
(* is never that of an attempt that had timed out.                          *)
C9_LateSuccessDiscarded ==
    \A c \in Callers :
        /\ \A i \in lateSeen[c] : i <= Len(hist[c]) /\ hist[c][i].kind = "timeout"
        /\ result[c].kind = "ok"
              => /\ result[c].att \notin lateSeen[c]
                 /\ hist[c][result[c].att].kind = "resp"
        /\ (Len(hist[c]) > 0 /\ hist[c][Len(hist[c])].kind = "timeout")
              => lastErr[c].kind = "TimeoutError" /\ lastErr[c].att = Len(hist[c])

C9_Witness ==
    /\ 1 \in lateSeen[1]
    /\ hist[1][1].kind = "timeout"
    /\ result[1].kind = "ok" /\ result[1].att = 2
    /\ pc[1] = "done"

(* C10: in every window of LimitPeriodMs milliseconds the limiter admits at *)
(* most limitForPeriod calls, whatever the interleaving of the callers.     *)
C10_AtMostLimitPerWindow ==
    \A i \in 1..Len(admitLog) :
        Cardinality({ j \in 1..Len(admitLog) :
                        /\ admitLog[j] >= admitLog[i]
                        /\ admitLog[j] < admitLog[i] + LimitPeriodMs }) <= cfg.limitForPeriod

C10_Witness ==
    /\ Len(admitLog) > cfg.limitForPeriod
    /\ admitLog[Len(admitLog)] = now
    /\ \E c1, c2 \in Callers :
          /\ c1 # c2
          /\ pc[c1] = "inflight" /\ tries[c1] = 1
          /\ deniedAt[c2] = now /\ pc[c2] = "rlWait"

(* C11: successive calls through a rate-limited client with the default     *)
(* rate-limit retry options never end in a RatelimitError; no call is       *)
(* denied before limitForPeriod calls were admitted, and a call that was    *)
(* denied is admitted, and its raw call issued, only once LimitPeriodMs has *)
(* elapsed since the admission that opened the window.                      *)
C11_SequentialCallsWaitOutWindow ==
    /\ result[1].kind # "RatelimitError"
    /\ deniedAt[1] # -1 => Len(admitLog) >= cfg.limitForPeriod
    /\ (deniedAt[1] # -1 /\ tries[1] >= 1)
          => /\ Len(admitLog) > cfg.limitForPeriod
             /\ admitLog[Len(admitLog)] - admitLog[Len(admitLog) - cfg.limitForPeriod]
                    >= LimitPeriodMs
             /\ admitLog[Len(admitLog)] >= deniedAt[1]

C11_Witness ==
    /\ deniedAt[1] # -1
    /\ pc[1] = "done" /\ result[1].kind = "ok"
    /\ Len(admitLog) = cfg.limitForPeriod + 1
    /\ cfg.limitForPeriod = 2

(* C12: a call that arrives while the breaker is Open is rejected at once   *)
(* with a BreakerError and no raw call is issued for it; the breaker stays  *)
(* Open.                                                                    *)
C12_OpenRejectsWithoutRawCall ==
    [][\A c \in Callers :
          (brk.state = "opened" /\ pc[c] = "idle" /\ pc'[c] # "idle")
              => /\ pc'[c] = "done"
                 /\ result'[c].kind = "BreakerError"
                 /\ tries'[c] = 0 /\ pending'[c] = {} /\ hist'[c] = <<>>
                 /\ brk' = brk]_vars

C12_Witness ==
    \E c \in Callers :
        /\ brk.state = "opened"
        /\ pc[c] = "done" /\ result[c].kind = "BreakerError"
        /\ tries[c] = 0 /\ hist[c] = <<>>

(* Vocabulary of the breaker properties: the share of one kind of outcome   *)
(* in a window, the outcome of the call a step settles, and the window the  *)
(* breaker looks at once that outcome is recorded                           *)
ShareAtLeast(calls, o, thr) ==
    Cardinality({ i \in 1..Len(calls) : calls[i] = o }) * 100 >= thr * Len(calls)
Settles(c) == pc[c] = "inflight" /\ pc'[c] = "done"
SettledOutcome(c) ==
    IF result'[c].kind # "ok" THEN "failure"
    ELSE IF now - startedAt[c] > SlowCallMs THEN "slow" ELSE "success"
WindowWith(calls, o) ==
    LET all == Append(calls, o)
    IN [i \in 1..(IF Len(all) > WindowSize THEN WindowSize ELSE Len(all)) |->
            all[i + (IF Len(all) > WindowSize THEN Len(all) - WindowSize ELSE 0)]]

(* C13: as claimed, a Closed breaker opens exactly when the outcome of a    *)
(* call that went through it brings the recorded outcomes to at least       *)
(* minimumNumberOfCalls with, in the sliding window, a failure rate at or   *)
(* above failureRateThreshold or a slow-call rate at or above               *)
(* slowCallRateThreshold: it opens on no other step and never stays Closed  *)
(* on such a step.                                                          *)
C13_ClosedOpensExactlyAtThreshold ==
    [][brk.state = "closed" =>
        (brk'.state = "opened" <=>
            \E c \in Callers :
                /\ Settles(c) /\ via[c] = "closed"
                /\ Len(brk.closed) + 1 >= cfg.minCalls
                /\ LET w == WindowWith(brk.closed, SettledOutcome(c))
                   IN \/ ShareAtLeast(w, "failure", cfg.failThr)
                      \/ ShareAtLeast(w, "slow", cfg.slowThr))]_vars

(* C14: as claimed, a breaker that opens at time t leaves Open by becoming   *)
(* HalfOpen: the step on which it leaves Open takes it to HalfOpen, at or   *)
(* after t + OpenStateDelayMs, and is a step of its timer, on which no call *)
(* arrives or settles; time passing, an Open breaker whose delay ends       *)
(* within the clock's range does not stay Open.                             *)
C14_OpenHalfOpensAfterDelay ==
    /\ [][/\ (brk.state # "opened" /\ brk'.state = "opened")
               => (brk'.openDue = now + OpenStateDelayMs)
          /\ (brk.state = "opened" /\ brk'.state = "opened")
               => (brk'.openDue = brk.openDue)
          /\ (brk.state = "opened" /\ brk'.state # "opened")
               => (/\ brk'.state = "half-opened"
                   /\ now >= brk.openDue
                   /\ pc' = pc /\ pending' = pending /\ now' = now)]_vars
    /\ ((brk.state = "opened" /\ brk.openDue <= MaxTicks * TickMs)
            ~> (brk.state # "opened"))

(* C15: in a HalfOpen phase the breaker counts the probes it lets through;  *)
(* a call that arrives while fewer than                                     *)
(* permittedNumberOfCallsInHalfOpenState probes were let through is let     *)
(* through as a probe, and a call that arrives once that many were let      *)
(* through is rejected with no raw call issued, whatever the interleaving   *)
(* of the callers; the count never exceeds the permitted number.            *)
C15_ProbeQuotaInHalfOpen ==
    [][/\ brk.nbHalf <= cfg.permitted /\ brk'.nbHalf <= cfg.permitted
       /\ (brk.state = "half-opened" /\ brk'.state = "half-opened")
            => (brk'.nbHalf >= brk.nbHalf)
       /\ \A c \in Callers :
            (brk.state = "half-opened" /\ pc[c] = "idle" /\ pc'[c] # "idle")
                => IF brk.nbHalf < cfg.permitted
                   THEN /\ pc'[c] = "inflight" /\ tries'[c] = 1 /\ pending'[c] = {1}
                        /\ brk' = [brk EXCEPT !.nbHalf = brk.nbHalf + 1]
                   ELSE /\ pc'[c] = "done" /\ result'[c].kind \notin {"none", "ok"}
                        /\ tries'[c] = 0 /\ pending'[c] = {} /\ hist'[c] = <<>>
                        /\ brk' = brk]_vars

C15_Witness ==
    \E c1, c2 \in Callers :
        /\ brk.state = "half-opened" /\ brk.nbHalf = cfg.permitted
        /\ pc[c1] = "inflight" /\ via[c1] = "half"
        /\ pc[c2] = "done" /\ result[c2].kind = "BreakerMaxAllowedRequestError"
        /\ tries[c2] = 0

(* C16: as claimed, a probe that fails while the breaker is HalfOpen sends  *)
(* the breaker back to Open on the step on which it settles.                *)
C16_ProbeFailureReopensAtOnce ==
    [][\A c \in Callers :
          (/\ brk.state = "half-opened" /\ via[c] = "half"
           /\ Settles(c) /\ SettledOutcome(c) = "failure")
              => brk'.state = "opened"]_vars

(* C16, amended: a HalfOpen breaker records the outcome of each probe and   *)
(* decides only on the step that brings the recorded outcomes to            *)
(* permittedNumberOfCallsInHalfOpenState: it goes back to Open when their   *)
(* failure rate reaches a failureRateThreshold below 100 or their slow-call *)
(* rate reaches a slowCallRateThreshold below 100, and otherwise it closes  *)
(* with its sliding window and its probe records reset to empty; the        *)
(* recording of a probe outcome before that, a failure included, changes    *)
(* nothing else of the breaker.                                             *)
C16_ProbesDecideWhenAllRecorded ==
    [][\A c \in Callers :
          (brk.state = "half-opened" /\ via[c] = "half" /\ Settles(c))
              => LET probes == Append(brk.half, SettledOutcome(c))
                 IN IF Len(probes) # cfg.permitted
                    THEN brk' = [brk EXCEPT !.half = probes]
                    ELSE IF \/ cfg.failThr < 100 /\ ShareAtLeast(probes, "failure", cfg.failThr)
                            \/ cfg.slowThr < 100 /\ ShareAtLeast(probes, "slow", cfg.slowThr)
                         THEN /\ brk'.state = "opened"
                              /\ brk'.openDue = now + OpenStateDelayMs
                         ELSE /\ brk'.state = "closed"
                              /\ brk'.closed = <<>> /\ brk'.half = <<>>
                              /\ brk'.nbHalf = 0]_vars

C16_Witness ==
    /\ brk.state = "half-opened" /\ cfg.permitted = MaxPermitted
    /\ brk.half = <<"failure">> /\ brk.nbHalf = MaxPermitted
    /\ \E c \in Callers : pc[c] = "inflight" /\ via[c] = "half"

(* Vocabulary of the materializer properties, read off the raw response     *)
InSuccessRange(o) == o.kind = "resp" /\ o.status >= 200 /\ o.status <= 299
JsonContentType(o) == o.ct \in {"application/json", "application/json; charset=utf-8"}
ParsesAsJson(o) == o.body \in {"{}", "{\"id\":\"1\"}", "{\"id\":1}"}
HasStringId(o) == o.body = "{\"id\":\"1\"}"
FailsValidation(o) ==
    InSuccessRange(o) /\ JsonContentType(o) /\ ParsesAsJson(o) /\ ~HasStringId(o)

(* C17: under the default retry predicate, when a response with status in   *)
(* [200,299], a JSON content type and a body that parses as JSON fails the  *)
(* configured schema, the call throws that attempt's schema validation      *)
(* error: it returns no response, and no response with body is built from   *)
(* it, not even one marked as non-JSON.                                     *)
C17_ValidationFailureThrows ==
    \A c \in Callers : \A i \in 1..Len(hist[c]) :
        (cfg.schema # "none" /\ FailsValidation(hist[c][i]))
            => /\ pc[c] = "done"
               /\ result[c].kind = "HumanReadableSchemaError"
               /\ result[c].att = i
               /\ ~env[c].built /\ ~env[c].isJson /\ env[c].data = "absent"

C17_Witness ==
    /\ cfg.schema = "idString" /\ Len(hist[1]) = 2
    /\ hist[1][1].status = 500
    /\ FailsValidation(hist[1][2]) /\ hist[1][2].status = 299
    /\ pc[1] = "done" /\ result[1].kind = "HumanReadableSchemaError"

(* C18: under the default retry predicate a schema validation failure ends  *)
(* the call: no raw call follows the attempt whose response failed          *)
(* validation, so a call whose first response fails validation issues       *)
(* exactly one raw call, whatever the configured attempts.                  *)
C18_ValidationFailureNotRetried ==
    \A c \in Callers : \A i \in 1..Len(hist[c]) :
        (cfg.onRej = "default" /\ cfg.schema # "none" /\ FailsValidation(hist[c][i]))
            => /\ i = Len(hist[c])
               /\ tries[c] = i
               /\ pc[c] = "done" /\ pending[c] = {}

C18_Witness ==
    /\ cfg.schema = "idString" /\ cfg.attempts = MaxAttempts
    /\ Len(hist[1]) = 1 /\ FailsValidation(hist[1][1])
    /\ tries[1] = 1 /\ pc[1] = "done"
    /\ result[1].kind = "HumanReadableSchemaError"

(* C19: with no schema configured, a response with status in [200,299] is   *)
(* returned with ok true; its isJson is true exactly when its Content-Type  *)
(* contains application/json and its body parses as JSON, and then data is  *)
(* the parsed value; otherwise isJson is false and data is absent.          *)
C19_IsJsonReflectsTypeAndParse ==
    \A c \in Callers : \A i \in 1..Len(hist[c]) :
        (cfg.schema = "none" /\ InSuccessRange(hist[c][i]))
            => /\ pc[c] = "done" /\ result[c].kind = "ok"
               /\ result[c].att = i /\ result[c].status = hist[c][i].status
               /\ hist[c][i].ok
               /\ env[c].built
               /\ env[c].isJson <=> (JsonContentType(hist[c][i]) /\ ParsesAsJson(hist[c][i]))
               /\ env[c].isJson => env[c].data = JSONParse(hist[c][i].body).value
               /\ ~env[c].isJson => env[c].data = "absent"

C19_Witness ==
    /\ cfg.schema = "none" /\ pc[1] = "done" /\ result[1].kind = "ok"
    /\ Len(hist[1]) = 2
    /\ hist[1][2].ct = "application/json" /\ hist[1][2].body = "<html>"
    /\ ~env[1].isJson /\ env[1].data = "absent"

(* C20: as claimed, a call that fails throws one of the classified errors   *)
(* (HTTPResponseError, RetryError, TimeoutError, RatelimitError,            *)
(* BreakerError, schema validation error), never the raw error the          *)
(* transport rejected with, also when every attempt's raw call rejects.     *)
C20_FailureIsClassified ==
    \A c \in Callers :
        Failed(c)
            => result[c].kind \in {"HTTPResponseError", "RetryError", "TimeoutError",
                                   "RatelimitError", "BreakerError",
                                   "HumanReadableSchemaError"}

---------------------------------------------------------------------------
(* Vocabulary of the hook properties *)

HasPreRequest == cfg.preHook # "none"
Rewrites == cfg.preHook = "rewrite"
HasErrorHook == cfg.errHook # "none"
Replaces == cfg.errHook = "replace"
ContainerErrors == {"RatelimitError", "BreakerError", "BreakerMaxAllowedRequestError"}
Over(c) == pc[c] = "done"

(* C21: as claimed, the preRequest hook runs exactly once per logical       *)
(* request, before the whole policy chain: every call that is over, however *)
(* it ended, has run the hook once.                                         *)
C21_PreRequestOncePerRequest ==
    \A c \in Callers :
        (HasPreRequest /\ Over(c)) => hook[c].pre = 1

\* the rate limiter and the circuit breaker let the call of c through to
\* doFetch: a raw call was issued for it, or doFetch threw before issuing one
LetThrough(c) ==
    \/ tries[c] >= 1
    \/ pc[c] = "threw"
    \/ Over(c) /\ result[c].kind \notin ContainerErrors

(* C21, amended: the preRequest hook runs once per call that the rate       *)
(* limiter and the circuit breaker let through, before the first raw call   *)
(* and never for a call they reject; every raw call of the call, retries    *)
(* included, is issued with the url and init the hook returned, or with the *)
(* caller's when the hook returned nothing or there is no hook.             *)
C21_PreRequestOncePerFetch ==
    \A c \in Callers :
        /\ hook[c].pre = (IF HasPreRequest /\ LetThrough(c) THEN 1 ELSE 0)
        /\ hook[c].preAt = 0
        /\ (Over(c) /\ result[c].kind \in ContainerErrors) => hook[c].pre = 0
        /\ Len(hook[c].sent) = tries[c]
        /\ \A i \in 1..Len(hook[c].sent) :
              hook[c].sent[i] = (IF Rewrites THEN "rewritten" ELSE "original")

C21_Witness ==
    /\ Rewrites /\ cfg.rateLimit /\ cfg.breaker
    /\ tries[1] = 2 /\ hook[1].pre = 1
    /\ hook[1].sent = <<"rewritten", "rewritten">>


\* the outcome of the last attempt of the call of c
LastOutcome(c) == hist[c][Len(hist[c])]

\* the per-call chain of the call of c failed: its last attempt timed out, was
\* rejected by the transport, brought an HTTP failure or failed validation
ChainFailed(c) ==
    /\ Over(c)
    /\ Len(hist[c]) > 0
    /\ \/ ~AttemptSucceeds(LastOutcome(c))
       \/ (cfg.schema # "none" /\ FailsValidation(LastOutcome(c)))

\* the error the per-call chain throws for the outcome of its last attempt
AttemptError(o) ==
    CASE o.kind = "timeout" -> "TimeoutError"
      [] o.kind = "neterr" -> "TypeError"
      [] HttpFailure(o) -> "HTTPResponseError"
      [] OTHER -> "HumanReadableSchemaError"

(* C22: as claimed, a configured postResponseError hook runs on every       *)
(* classified error that ends a call, the RatelimitError and BreakerError   *)
(* of the client's rate limiter and circuit breaker included.               *)
C22_ErrorHookOnEveryClassifiedError ==
    \A c \in Callers :
        (HasErrorHook /\ Failed(c)) => hook[c].post >= 1

(* C22, amended: a configured postResponseError hook runs on every error    *)
(* with which the per-call policy chain ends a call, and is given that      *)
(* error: an HTTPResponseError (also when the call then ends with a         *)
(* RetryError), a TimeoutError, a schema validation error. It does not run  *)
(* for a RatelimitError or a BreakerError of the client's rate limiter and  *)
(* circuit breaker, which end the call before the chain has started.        *)
C22_ErrorHookOnChainFailure ==
    \A c \in Callers :
        /\ (HasErrorHook /\ ChainFailed(c))
              => /\ hook[c].post = 1
                 /\ hook[c].saw = AttemptError(LastOutcome(c))
                 /\ result[c].kind = "RetryError" => hook[c].saw = "HTTPResponseError"
        /\ (HasErrorHook /\ Failed(c) /\ result[c].kind \in ContainerErrors)
              => hook[c].post = 0 /\ tries[c] = 0

C22_Witness ==
    /\ cfg.errHook = "void" /\ cfg.rateLimit /\ cfg.breaker
    /\ Over(1) /\ result[1].kind = "RetryError"
    /\ hook[1].post = 1 /\ hook[1].saw = "HTTPResponseError"


\* the error kinds a failed per-call chain ends in when no hook replaces them
UnhookedKinds(o) ==
    CASE o.kind = "timeout" -> {"TimeoutError"}
      [] o.kind = "neterr" -> {"TypeError"}
      [] HttpFailure(o) -> IF RetryableStatus(o) THEN {"RetryError"} ELSE {"HTTPResponseError"}
      [] OTHER -> {"HumanReadableSchemaError"}

(* C23: a hook never turns a failure into a success. When the per-call      *)
(* chain of a call fails the call throws and returns no response: it throws *)
(* the error the postResponseError hook returned when it returned one (the  *)
(* hook explored returns an error of its own for an HTTPResponseError and   *)
(* the error it was given for any other), and when the hook returned        *)
(* nothing it throws the same error as a call without hook.                 *)
C23_HookCannotSuppressFailure ==
    \A c \in Callers :
        ChainFailed(c)
            => /\ Failed(c)
               /\ Replaces =>
                     result[c].kind = (IF HttpFailure(LastOutcome(c)) THEN "HookError"
                                       ELSE AttemptError(LastOutcome(c)))
               /\ ~Replaces => result[c].kind \in UnhookedKinds(LastOutcome(c))
               /\ HttpFailure(LastOutcome(c))
                     => result[c].status = LastOutcome(c).status

C23_Witness ==
    /\ Replaces /\ ChainFailed(1)
    /\ LastOutcome(1).status = 500 /\ tries[1] = 2
    /\ result[1].kind = "HookError" /\ hook[1].saw = "HTTPResponseError"


---------------------------------------------------------------------------
(* Vocabulary of the option properties: the settings of a call, and who     *)
(* gave a value for each                                                    *)

Settings ==
    { <<"timeout", "timeoutMs">>, <<"retry", "attempts">>, <<"retry", "onRejection">>,
      <<"hooks", "preRequest">>, <<"hooks", "postResponseError">> }

\* the value the options o give for the nested setting s, if any
Given(o, s) == IF o[s[1]].has THEN o[s[1]][s[2]] ELSE "unset"

\* the default of the nested setting s, if it has one
DefaultOf(s) ==
    IF s[1] \in {"timeout", "retry"} THEN "default" ELSE "unset"

\* per-call value if given, else the builder's if given, else x
FirstGiven(percall, builder, x) ==
    IF percall # "unset" THEN percall ELSE IF builder # "unset" THEN builder ELSE x

(* C24: the options a call is run with are, setting by setting (timeout,    *)
(* each retry field, schema, each hook), the per-call value if one was      *)
(* given, else the builder's value if one was given, else the default.      *)
C24_PerCallThenBuilderThenDefault ==
    calc.op = "resolved"
        => /\ \A s \in Settings :
                 Given(calc.used, s)
                     = FirstGiven(Given(calc.percall, s), Given(calc.builder, s), DefaultOf(s))
           /\ calc.used.schema = FirstGiven(calc.percall.schema, calc.builder.schema, "unset")

C24_Witness ==
    /\ calc.op = "resolved"
    /\ calc.builder.retry.has /\ calc.builder.retry.onRejection = "unset"
    /\ calc.percall.retry.has /\ calc.percall.retry.onRejection = "percall"
    /\ calc.builder.timeout.has /\ ~calc.percall.timeout.has
    /\ calc.builder.hooks.has /\ calc.builder.hooks.preRequest = "builder"
    /\ calc.percall.hooks.has /\ calc.percall.hooks.preRequest = "unset"
    /\ calc.used.retry.attempts = "percall" /\ calc.used.retry.onRejection = "percall"
    /\ calc.used.timeout.timeoutMs = "builder"
    /\ calc.used.hooks.preRequest = "builder"


---------------------------------------------------------------------------
(* Vocabulary of the message properties: the pieces of a message, and what  *)
(* the body of the response offers                                          *)

Pieces(m) == { m[i] : i \in 1..Len(m) }
Structured == {"(error.type): ", "(error.code): ", "error.message"}
UsesStructured(m) == Pieces(m) \cap Structured # {}
UsesString(m) == "error" \in Pieces(m)
UsesJoined(m) == "errorMessages.join('; ')" \in Pieces(m)
UsesBody(m) == Pieces(m) \cap {"dataString", "Unknown error"} # {}

Parsed(r) == r.isJson /\ r.hasData
OffersStructured(r) ==
    Parsed(r) /\ r.error.form = "object" /\ (r.error.type \/ r.error.code \/ r.error.message)
OffersString(r) == Parsed(r) /\ r.error.form = "string"
OffersJoined(r) == Parsed(r) /\ r.errorMessages = "array"

(* C25: as claimed, the message of an HTTPResponseError uses exactly one    *)
(* alternative, by precedence: the structured error fields if present, else *)
(* a string error, else the joined errorMessages array, else the raw body   *)
(* text; and it ends with "HTTP Error Response: <status> <statusText>".     *)
C25_MessageUsesOneAlternative ==
    calc.op = "error"
        => LET r == calc.response
               m == calc.message
           IN /\ UsesStructured(m) <=> OffersStructured(r)
              /\ UsesString(m) <=> (~OffersStructured(r) /\ OffersString(r))
              /\ UsesJoined(m)
                    <=> (~OffersStructured(r) /\ ~OffersString(r) /\ OffersJoined(r))
              /\ UsesBody(m)
                    <=> (~OffersStructured(r) /\ ~OffersString(r) /\ ~OffersJoined(r))
              /\ m[Len(m)] = "HTTP Error Response: status statusText"


---------------------------------------------------------------------------
(* Vocabulary of the chain properties: the steps of a call through the      *)
(* container circuit                                                        *)

\* the call of c asks the rate limiter for admission on this step
Asks(c) ==
    /\ pc[c] \in {"idle", "rlWait"}
    /\ pc'[c] # pc[c] \/ rlLeft'[c] # rlLeft[c]

\* the rate limiter denies the call of c on this step
Denied(c) == Asks(c) /\ deniedAt'[c] = now /\ admitLog' = admitLog

\* the rate limiter admits the call of c on this step
Admitted(c) == Asks(c) /\ admitLog' = Append(admitLog, now)

\* the circuit breaker is consulted for the call of c on this step: it
\* rejects the call or lets it through
Consulted(c) ==
    /\ Asks(c)
    /\ \/ pc'[c] = "done"
          /\ result'[c].kind \in {"BreakerError", "BreakerMaxAllowedRequestError"}
       \/ via'[c] # "none"

\* the first raw call of the call of c is issued on this step
FirstRawCall(c) == tries[c] = 0 /\ tries'[c] = 1

(* C26: the policies of a built client are consulted outer to inner, rate   *)
(* limiter before circuit breaker before the per-call retry and timeout     *)
(* before the raw call, and a policy that rejects invokes nothing inside    *)
(* it: a denial by the rate limiter leaves the breaker's state unchanged    *)
(* and issues no raw call, the breaker is consulted only for calls the      *)
(* limiter admitted, a rejection by the breaker issues no raw call, a raw   *)
(* call is issued only for a call both let through, and an attempt that     *)
(* times out is retried by the per-call retry while it has retries left.    *)
C26_RejectingPolicyInvokesNoInner ==
    [][\A c \in Callers :
          /\ (cfg.rateLimit /\ Denied(c))
                => /\ brk' = brk /\ via'[c] = "none"
                   /\ tries'[c] = 0 /\ pending'[c] = pending[c]
                   /\ hook'[c] = hook[c]
                   /\ pc'[c] = "rlWait"
                         \/ (pc'[c] = "done" /\ result'[c].kind = "RatelimitError")
          /\ (cfg.rateLimit /\ cfg.breaker /\ Consulted(c)) => Admitted(c)
          /\ (cfg.rateLimit /\ Asks(c)) => (Denied(c) \/ Admitted(c))
          /\ (cfg.breaker /\ Asks(c) /\ pc'[c] = "done"
                /\ result'[c].kind \in {"BreakerError", "BreakerMaxAllowedRequestError"})
                => tries'[c] = 0 /\ pending'[c] = pending[c] /\ hook'[c] = hook[c]
          /\ FirstRawCall(c)
                => /\ Asks(c)
                   /\ cfg.rateLimit => Admitted(c)
                   /\ cfg.breaker => via'[c] \in {"closed", "half"}
          /\ (pc[c] = "inflight" /\ hist'[c] = Append(hist[c], TimedOut)
                /\ tries[c] <= cfg.attempts)
                => pc'[c] = "backoff" /\ brk' = brk]_vars

C26_Witness ==
    /\ cfg.rateLimit /\ cfg.breaker
    /\ Over(1) /\ result[1].kind = "BreakerError"
    /\ deniedAt[1] # -1
    /\ admitLog[Len(admitLog)] = now
    /\ tries[1] = 0


\* an attempt of the call of c is recorded on this step
AttemptEnds(c) == Len(hist'[c]) = Len(hist[c]) + 1

\* a raw call of the call of c is issued on this step
RawCallIssued(c) == tries'[c] = tries[c] + 1

(* C27: as claimed, every attempt of a logical request, per-call retries    *)
(* included, takes one rate-limiter admission when its raw call is issued   *)
(* and records one outcome in the breaker when it ends.                     *)
C27_EveryAttemptUpdatesState ==
    [][\A c \in Callers :
          /\ (cfg.rateLimit /\ RawCallIssued(c)) => admitLog' = Append(admitLog, now)
          /\ (cfg.breaker /\ AttemptEnds(c) /\ via[c] # "none") => brk' # brk]_vars

(* C27, amended: the limiter and the breaker are updated once per logical   *)
(* request, not once per attempt. A call takes one admission, before its    *)
(* first raw call, and the breaker records one outcome for it, when the     *)
(* call ends: a failure if it throws, a success (or a slow call) if it      *)
(* returns. An attempt that fails and is retried, and the raw call of a     *)
(* retry, change neither the breaker nor the limiter.                       *)
C27_OneUpdatePerCall ==
    [][\A c \in Callers :
          /\ (AttemptEnds(c) /\ pc'[c] = "backoff")
                => brk' = brk /\ requestsTime' = requestsTime /\ admitLog' = admitLog
          /\ (RawCallIssued(c) /\ tries[c] >= 1)
                => brk' = brk /\ requestsTime' = requestsTime /\ admitLog' = admitLog
          /\ admitLog' # admitLog
                => \E d \in Callers : Asks(d) /\ tries[d] = 0 /\ admitLog' = Append(admitLog, now)
          /\ (cfg.rateLimit /\ FirstRawCall(c)) => Admitted(c)
          /\ (cfg.breaker /\ pc[c] = "inflight" /\ pc'[c] = "done"
                /\ via[c] = "closed" /\ brk.state = "closed")
                => \E o \in (IF result'[c].kind = "ok" THEN {"success", "slow"}
                                                      ELSE {"failure"}) :
                      \/ brk'.closed = LastN(Append(brk.closed, o), WindowSize)
                      \/ o # "success" /\ brk'.state = "opened"]_vars

C27_Witness ==
    /\ cfg.rateLimit /\ cfg.breaker
    /\ Over(1) /\ result[1].kind = "ok" /\ tries[1] = 2
    /\ HttpFailure(hist[1][1])
    /\ Len(admitLog) = 1
    /\ brk.state = "closed" /\ brk.closed = <<"success">>


---------------------------------------------------------------------------
(* Vocabulary of the rate-limit properties *)

\* the fixed window a quota counter would be in after the admissions of log:
\* the start of its window and the admissions it counted in it
RECURSIVE FixedWindow(_)
FixedWindow(log) ==
    IF log = <<>>
    THEN [start |-> 0, used |-> 0]
    ELSE LET w == FixedWindow(SubSeq(log, 1, Len(log) - 1))
             t == log[Len(log)]
         IN IF w.used = 0 \/ t - w.start > LimitPeriodMs
            THEN [start |-> t, used |-> 1]
            ELSE [w EXCEPT !.used = w.used + 1]

\* the admissions of the last LimitPeriodMs milliseconds
Recent == { j \in 1..Len(admitLog) : admitLog[j] >= now - LimitPeriodMs }

\* the time remaining that a denial of the call of c reports on this step
RemainingReported(c) ==
    IF pc'[c] = "rlWait" THEN wake'[c] - now - RL_BUFFER_MS ELSE result'[c].rem

(* C28: as claimed, the limiter keeps a window with a quota: an admission   *)
(* attempt is admitted, and counted, if quota remains in the current        *)
(* window, it opens a new window with the quota reset if the window has     *)
(* expired, and otherwise it is rejected with the time until the window     *)
(* resets; a denial changes neither quota nor window start.                 *)
C28_WindowQuotaAdmission ==
    [][\A c \in Callers :
          (cfg.rateLimit /\ Asks(c))
              => LET w == FixedWindow(admitLog)
                     expired == w.used = 0 \/ now - w.start > LimitPeriodMs
                 IN /\ (expired \/ w.used < cfg.limitForPeriod) => Admitted(c)
                    /\ ~(expired \/ w.used < cfg.limitForPeriod)
                          => /\ Denied(c)
                             /\ RemainingReported(c) = w.start + LimitPeriodMs - now
                             /\ requestsTime' = requestsTime]_vars

(* C28, amended: the limiter keeps the times of its latest admissions, not  *)
(* a window with a quota. An admission attempt is admitted, and its time    *)
(* recorded, if fewer than limitForPeriod admissions were made in the last  *)
(* limitPeriod milliseconds; otherwise it is rejected with a RatelimitError *)
(* whose remaining time is the time until the oldest of the latest          *)
(* limitForPeriod admissions is limitPeriod old. A denial changes nothing   *)
(* in the limiter. Admissions never free more than the slot of the oldest   *)
(* admission: the quota is never reset as a whole.                          *)
C28_SlidingLogAdmission ==
    [][\A c \in Callers :
          (cfg.rateLimit /\ Asks(c))
              => /\ Cardinality(Recent) < cfg.limitForPeriod
                       => Admitted(c) /\ Len(requestsTime') <= cfg.limitForPeriod
                 /\ Cardinality(Recent) >= cfg.limitForPeriod
                       => /\ Denied(c)
                          /\ RemainingReported(c)
                                = admitLog[Len(admitLog) - cfg.limitForPeriod + 1]
                                      + LimitPeriodMs - now
                          /\ requestsTime' = requestsTime /\ admitLog' = admitLog]_vars

C28_Witness ==
    /\ cfg.limitForPeriod = 2
    /\ Len(admitLog) = 3
    /\ admitLog[3] - admitLog[1] > LimitPeriodMs
    /\ admitLog[3] - admitLog[2] <= LimitPeriodMs
    /\ \E c \in Callers : deniedAt[c] = admitLog[3] /\ pc[c] = "rlWait" /\ now = admitLog[3]


(* C29: callers beyond the quota are not queued. With the default           *)
(* rate-limit retry options a call that is denied admission waits the       *)
(* remaining time plus 50 ms and asks once more, not earlier; if that       *)
(* second request is denied too, concurrent callers having taken the        *)
(* capacity, the call fails with a RatelimitError and no raw call was       *)
(* issued for it.                                                           *)
C29_DeniedCallRetriedOnce ==
    [][\A c \in Callers :
          /\ (Denied(c) /\ pc[c] = "idle")
                => /\ pc'[c] = "rlWait"
                   /\ wake'[c] = now + RemainingReported(c) + RL_BUFFER_MS
                   /\ RemainingReported(c) >= 0
                   /\ tries'[c] = 0
          /\ (Asks(c) /\ pc[c] = "rlWait") => now >= wake[c]
          /\ (Denied(c) /\ pc[c] = "rlWait")
                => /\ pc'[c] = "done"
                   /\ result'[c].kind = "RatelimitError"
                   /\ tries'[c] = 0 /\ hist'[c] = <<>> /\ pending'[c] = pending[c]
          /\ (pc'[c] = "done" /\ result'[c].kind = "RatelimitError")
                => tries'[c] = 0 /\ hist'[c] = <<>>]_vars

C29_Witness ==
    \E c1, c2 \in Callers :
        /\ c1 # c2
        /\ pc[c1] = "done" /\ result[c1].kind = "RatelimitError"
        /\ deniedAt[c1] = now /\ tries[c1] = 0
        /\ pc[c2] = "inflight" /\ admitLog[Len(admitLog)] = now
        /\ Len(admitLog) > cfg.limitForPeriod


---------------------------------------------------------------------------
(* Vocabulary of the client properties *)

\* the call of c ends on this step
CallEnds(c) == pc[c] = "inflight" /\ pc'[c] = "done"

\* the timer of the client's breaker fires on this step
TimerFires ==
    brk.state = "opened" /\ brk'.state = "half-opened" /\ now >= brk.openDue

(* C30: the rate limiter's and the circuit breaker's state belong to one    *)
(* built client. All calls through the client, concurrent or successive,    *)
(* see the same state: whether a call is admitted depends on the admissions *)
(* of all the client's callers, and while the breaker is open every caller  *)
(* is rejected. The state changes only through the client's own calls and   *)
(* timer, never through a call to a separately built client, whose state in *)
(* turn the client's calls never change. The default `fetch` has neither    *)
(* state: its calls are never denied, never rejected, and record nothing.   *)
C30_StatePerBuiltClient ==
    [][/\ \A c \in Callers :
             /\ (cfg.rateLimit /\ Asks(c))
                   => (Admitted(c) <=> Cardinality(Recent) < cfg.limitForPeriod)
             /\ (cfg.breaker /\ Asks(c) /\ brk.state = "opened" /\ ~Denied(c))
                   => pc'[c] = "done" /\ result'[c].kind = "BreakerError"
             /\ (~cfg.rateLimit /\ ~cfg.breaker)
                   => result'[c].kind \notin ContainerErrors
       /\ (requestsTime' # requestsTime \/ admitLog' # admitLog)
             => /\ \E c \in Callers : Admitted(c)
                /\ peer' = peer
       /\ brk' # brk
             => /\ TimerFires \/ \E c \in Callers : Asks(c) \/ CallEnds(c)
                /\ peer' = peer
       /\ peer' # peer
             => /\ requestsTime' = requestsTime /\ admitLog' = admitLog /\ brk' = brk
                /\ pc' = pc /\ result' = result
       /\ (~cfg.rateLimit /\ ~cfg.breaker)
             => requestsTime' = <<>> /\ admitLog' = <<>> /\ brk' = BrkClosed]_vars

C30_Witness ==
    /\ cfg.rateLimit /\ cfg.breaker
    /\ peer.built /\ peer.brk.state = "opened" /\ peer.requestsTime # <<>>
    /\ peer.calls # <<>>
    /\ brk.state = "closed"
    /\ pc[1] = "inflight" /\ admitLog = <<now>>
    /\ pc[2] = "done" /\ result[2].kind = "RatelimitError" /\ deniedAt[2] = now


---------------------------------------------------------------------------
(* C31: waits do not block the other calls of the client *)

\* caller c is suspended in a retry delay or in a rate-limit wait
Waiting(c) == pc[c] \in {"backoff", "rlWait"}

\* C31: while one call on a client waits in a retry backoff or in a rate-limit
\* wait, every other call of the client can take its next step: an idle
\* caller can invoke the client and ask for admission, a raw call in flight
\* can settle and complete its call, the read of a body can end, another
\* caller's retry delay can end
C31_WaitsDoNotBlock ==
    \A c \in Callers : \A d \in Callers \ {c} :
        Waiting(c) =>
            /\ pc[d] = "idle" => ENABLED Call(d)
            /\ (pc[d] = "inflight" /\ \A b \in reading[d] : b.att # tries[d]) =>
                   ENABLED RawSettle(d, tries[d], PlainOk)
            /\ (pc[d] = "inflight" /\ \E b \in reading[d] : b.att = tries[d]) =>
                   ENABLED BodyRead(d, tries[d])
            /\ pc[d] = "backoff" => ENABLED BackoffDone(d)
            /\ (pc[d] = "rlWait" /\ now >= wake[d]) => ENABLED RLWake(d)

\* caller 1 was denied admission and is still waiting; since then caller 2 was
\* admitted, issued its raw call and got its envelope, while caller 1 waited
C31_Witness ==
    /\ pc[1] = "rlWait"
    /\ deniedAt[1] >= 0
    /\ admitLog # <<>>
    /\ admitLog[Len(admitLog)] > deniedAt[1]
    /\ pc[2] = "done"
    /\ result[2].kind = "ok"
    /\ tries[2] >= 1


---------------------------------------------------------------------------
(* C33: when a response envelope has data *)

\* C33: as claimed, in every response envelope, returned to the caller or
\* carried by an HTTPResponseError, data is present only if isJson is true
\* and either no schema is configured or the parsed body of the response the
\* envelope was built from passes the schema.
C33_DataOnlyWhenValidated ==
    \A c \in Callers :
        (env[c].built /\ env[c].data # "absent")
            => /\ env[c].isJson
               /\ cfg.schema = "none" \/ HasStringId(hist[c][Len(hist[c])])


---------------------------------------------------------------------------
(* C34: how often the body of a raw response is read *)

\* the raw response is a failed one: neither ok nor redirected
FailedResponse(r) == ~r.ok /\ ~r.redirected

\* C34: the body of each raw response is read at most once on every path
\* (JSON or other content type, ok or failed), and the body of a failed
\* response is read exactly once, before the HTTPResponseError is thrown,
\* whose envelope carries the body text.
C34_BodyReadOnce ==
    /\ Len(calc.reads) <= 1
    /\ (calc.op = "fetched" /\ FailedResponse(calc.response)) =>
              /\ Len(calc.reads) = 1
              /\ calc.threw = "HTTPResponseError"
              /\ calc.env.built
              /\ calc.env.dataString = calc.response.body

\* a failed response with a JSON content type, read in the JSON branch and
\* not again before the throw
C34_Witness ==
    /\ calc.op = "fetched"
    /\ calc.response.status = 404 /\ ~calc.response.redirected
    /\ calc.response.ct = "application/json"
    /\ calc.reads = <<"text">>
    /\ calc.threw = "HTTPResponseError"
    /\ calc.env.dataString = "{\"id\":1}"


---------------------------------------------------------------------------
(* C35: when the postResponseError hook runs and what it is given *)

\* the per-call retry policy has no further try for the call of c: its tries
\* are spent, or its last attempt failed in a way the predicate does not retry
RetryOver(c) ==
    \/ tries[c] = cfg.attempts + 1
    \/ HttpFailure(LastOutcome(c)) /\ ~RetryableStatus(LastOutcome(c))
    \/ cfg.schema # "none" /\ FailsValidation(LastOutcome(c))

\* what doFetch threw for the failed last attempt of the call of c, whose
\* error the hook was given
ThrownForLast(c) ==
    /\ hook[c].saw = AttemptError(LastOutcome(c))
    /\ Replaces =>
          /\ result[c].kind = (IF HttpFailure(LastOutcome(c)) THEN "HookError"
                                ELSE AttemptError(LastOutcome(c)))
          /\ result[c].att = tries[c]
          /\ HttpFailure(LastOutcome(c)) => result[c].status = LastOutcome(c).status

\* C35: as claimed, the postResponseError hook is invoked at most once per
\* logical request, only when the per-call retry policy has given up and the
\* call ends, never between retry attempts; it is given the underlying error
\* of the last attempt: for an HTTP failure an HTTPResponseError with that
\* attempt's response, not a RetryError.
C35_ErrorHookOnceAfterRetries ==
    \A c \in Callers :
        /\ hook[c].post <= 1
        /\ pc[c] \in {"inflight", "backoff"} => hook[c].post = 0
        /\ hook[c].post = 1 =>
              /\ Over(c)
              /\ hist[c] # <<>>
              /\ RetryOver(c)
              /\ ThrownForLast(c)

---------------------------------------------------------------------------
(* C36: what the rate-limit retry policy retries *)

\* the client was built with a rate limit and the default rate-limit retry
\* options
DefaultRateLimitRetry == cfg.rateLimit /\ cfg.rlAttempts = DEFAULT_RL_ATTEMPTS

\* the per-call chain of the call of c ends on this step
ChainEnds(c) == pc[c] = "inflight" /\ pc'[c] \notin {"inflight", "backoff"}

\* C36: through a built client with the default rate-limit retry options, an
\* error other than a RatelimitError (HTTPResponseError, RetryError,
\* TimeoutError, BreakerError, schema validation error) is never retried by
\* the outer rate-limit retry policy: the call ends on the step on which its
\* per-call chain ends, one logical request issues at most (per-call retry
\* attempts + 1) raw calls, and a call the breaker rejects ends with the
\* BreakerError on the step of that single consultation.
C36_OuterRetryOnlyRateLimit ==
    [][\A c \in Callers :
          DefaultRateLimitRetry =>
              /\ ChainEnds(c) => pc'[c] = "done"
              /\ Len(hook'[c].sent) <= cfg.attempts + 1
              /\ tries'[c] <= cfg.attempts + 1
              /\ (pc'[c] = "rlWait" /\ pc[c] # "rlWait") => (pc[c] = "idle" /\ Denied(c))
              /\ (cfg.breaker /\ Admitted(c) /\ brk.state = "opened")
                    => /\ pc'[c] = "done"
                       /\ result'[c].kind = "BreakerError"
                       /\ tries'[c] = 0]_vars

\* a call admitted once whose two attempts failed: it ended with a RetryError
\* after two raw calls, the countdown of the rate-limit retry untouched
C36_Witness ==
    /\ DefaultRateLimitRetry /\ cfg.breaker /\ cfg.attempts = 1
    /\ Over(1) /\ result[1].kind = "RetryError"
    /\ Len(hook[1].sent) = 2
    /\ rlLeft[1] = RetryBudget(DEFAULT_RL_ATTEMPTS)
    /\ deniedAt[1] = -1


---------------------------------------------------------------------------
(* C37: the phase changes of the breaker *)

\* C37: as claimed, under every interleaving of concurrent calls and timer
\* expiries the breaker phase changes only from Closed to Open, from Open to
\* HalfOpen, from HalfOpen to Closed and from HalfOpen to Open, never from
\* Closed to HalfOpen nor from Open to Closed.
C37_PhaseChangesAlongCycle ==
    [][brk'.state # brk.state =>
          <<brk.state, brk'.state>> \in
              { <<"closed", "opened">>, <<"opened", "half-opened">>,
                <<"half-opened", "closed">>, <<"half-opened", "opened">> }]_vars


---------------------------------------------------------------------------
(* C38: every call settles *)

\* the call of c is under way and what it waits for lies within the clock's
\* range
UnderWay(c) ==
    \/ pc[c] \in {"inflight", "backoff"}
    \/ pc[c] = "rlWait" /\ wake[c] <= MaxTicks * TickMs

\* C38: with a finite timeout and finitely many retry attempts, every logical
\* request eventually settles, returning an envelope or throwing: no call
\* waits forever, also when its raw call never settles, when the breaker is
\* Open, or when other callers have used up the rate-limit quota.
C38_EveryCallSettles ==
    \A c \in Callers : UnderWay(c) ~> (pc[c] = "done")

\* a call that was denied admission because another caller had used the
\* quota, waited, was admitted, and whose raw calls never settled: it ended
\* with a TimeoutError
C38_Witness ==
    /\ cfg.rateLimit /\ cfg.breaker /\ cfg.attempts = 1
    /\ pc[2] = "done" /\ result[2].kind = "TimeoutError"
    /\ deniedAt[2] # -1
    /\ pending[2] = {1, 2}


---------------------------------------------------------------------------
(* C39, C40: what a call and what build() leave unchanged *)

\* the call gave neither init nor options
NoOverrides(given) == given.init = NoInit /\ given.options = NoOptions

\* the headers configured on the builder, as handed to a client at build()
BuilderHeaders(from) == IF from.hasHeaders THEN from.headers ELSE NoHeaders

\* C39: per-call init and options affect only the call that gives them: after
\* any sequence of calls through a built client, the init and the request
\* options the client holds are those it was built with, and a call made
\* without overrides, also after calls with overrides, is issued with
\* exactly the headers and method the builder handed to the client (next to
\* the context headers) and with the client's settings.
C39_PerCallOverridesAreLocal ==
    calc.op = "builder" =>
        /\ \A k \in 1..Len(calc.clients) : calc.clients[k].held = calc.clients[k].built
        /\ \A j \in 1..Len(calc.requests) :
              LET r == calc.requests[j]
                  cl == calc.clients[r.client]
              IN NoOverrides(r.given) =>
                    /\ \A n \in HeaderNames \ {"X-Correlation-Id"} :
                          r.init.headers[n] = BuilderHeaders(cl.from)[n]
                    /\ r.init.method = (IF cl.from.method = Unset THEN "GET" ELSE cl.from.method)
                    /\ r.options = cl.built.requestOptions

\* a call that overrides headers, timeout and schema, then a call through the
\* same client without overrides, issued with the builder's headers
C39_Witness ==
    /\ calc.op = "builder"
    /\ Len(calc.requests) = 2
    /\ calc.requests[1].client = 1 /\ calc.requests[2].client = 1
    /\ calc.requests[1].init.headers["Authorization"] = "percall"
    /\ calc.requests[1].options.timeout.timeoutMs = "percall"
    /\ NoOverrides(calc.requests[2].given)
    /\ calc.requests[2].init.headers["Authorization"] = "builder"
    /\ calc.requests[2].options.timeout.timeoutMs = "builder"

\* C40: as claimed, build() does not modify the builder's configuration: the
\* init object handed to withInit is left unchanged, and requests given the
\* same per-call init through clients built by successive build() calls on
\* one builder are sent with the same headers.
C40_BuildLeavesBuilderUnchanged ==
    calc.op = "builder" =>
        /\ calc.init = calc.given
        /\ \A i \in 1..Len(calc.requests) : \A j \in 1..Len(calc.requests) :
              (/\ calc.clients[calc.requests[i].client].after
                     = calc.clients[calc.requests[j].client].after
               /\ calc.requests[i].given.init = calc.requests[j].given.init)
                  => calc.requests[i].init.headers = calc.requests[j].init.headers

=============================================================================
